---- MODULE Spec2Model ----
(* Bring-up of the DS90UB954 FPD-Link III deserializer                      *)
(* (drivers/media/i2c/ds90ub954.rs): probe, init, the per-serializer        *)
(* sub-sequence with its back-channel poll and cleanup, and the             *)
(* rx-port selection cache of read_rx_port / write_rx_port.                 *)
EXTENDS Integers, Sequences, FiniteSets, TLC

(***************************************************************************)
(* Register addresses and bit positions of mod ti954                       *)
(***************************************************************************)
REG_I2C_DEV_ID == 0
REG_REVISION == 3
REG_DEVICE_STS == 4
REG_RX_PORT_CTL == 12
PORT0_EN == 0
\* bits of REG_DEVICE_STS
LOCK == 2
PASS == 3
REFCLK_VALID == 4
CFG_INIT_DONE == 6
CFG_CKSUM_STS == 7
REG_GPIO_INPUT_CTL == 15
REG_GPIO0_PIN_CTL == 16
REG_CSI_PLL_CTL == 31
CSI_TX_SPEED == 0
REG_FWD_CTL1 == 32
FWD_PORT0_DIS == 4
REG_CSI_CTL == 51
CSI_ENABLE == 0
CSI_CONTS_CLOCK == 1
CSI_LANE_COUNT == 4
CSI_CAL_EN == 6
CSI_4_LANE == 0
CSI_3_LANE == 1
CSI_2_LANE == 2
CSI_1_LANE == 3
REG_FPD3_PORT_SEL == 76
RX_READ_PORT == 4
REG_BCC_CONFIG == 88
BC_FREQ_SELECT == 0
BC_CRC_GENERAOTR_ENABLE == 3
BC_ALWAYS_ON == 4
I2C_PASS_THROUGH == 6
I2C_PASS_THROUGH_ALL == 7
BC_FREQ_50M == 6
REG_SER_ALIAS_ID == 92
SER_ALIAS_ID == 1
REG_BC_GPIO_CTL0 == 110
BC_GPIO0_SEL == 0
BC_GPIO1_SEL == 4
REG_BC_GPIO_CTL1 == 111
BC_GPIO2_SEL == 0
BC_GPIO3_SEL == 4
REG_BIST_CONTROL == 179
REG_FPD3_RX_ID0 == 240
RX_ID_LENGTH == 6
NUM_SERIALIZER == 2

\* a poll that gives up one attempt early
PollAttemptsShort == 50 - 1

\* for i in 0..50 of the back-channel poll
PollAttempts == 50
\* the status byte the poll waits for (0xdf)
ExpectedStatus == 223
\* value written to REG_RX_PORT_CTL before the serializer loop (0b00111100)
PassLockValue == 60
\* all seven GPIOn_INPUT_EN bits
GpioInputAll == 127
\* number of REG_GPIOn_PIN_CTL registers written at the end of init
NumGpioPins == 7
\* device-tree defaults of ds90ub953_parse_dt
DefaultI2cAddress == 24
DefaultGpioControl == 8

\* DS90UB95X_TP_REG_VAL as (register, value) pairs
DS90UB95X_TP_REG_VAL ==
    << <<176, 0>>,
       <<177, 1>>, <<178, 1>>,   <<177, 2>>, <<178, 53>>,
       <<177, 3>>, <<178, 43>>,  <<177, 4>>, <<178, 20>>,
       <<177, 5>>, <<178, 0>>,   <<177, 6>>, <<178, 2>>,
       <<177, 7>>, <<178, 128>>, <<177, 8>>, <<178, 8>>,
       <<177, 9>>, <<178, 112>>, <<177, 10>>, <<178, 8>>,
       <<177, 11>>, <<178, 112>>, <<177, 12>>, <<178, 11>>,
       <<177, 13>>, <<178, 147>>, <<177, 14>>, <<178, 33>>,
       <<177, 15>>, <<178, 10>> >>

(***************************************************************************)
(* Bounds of the model                                                     *)
(***************************************************************************)
\* number of read_rx_port / write_rx_port calls of the cache harness
MaxCalls == 5

\* largest csi-lane-count of the lane-configuration runs
MaxLaneCount == 6

\* largest register address the access callbacks are asked about
MaxRegAddr == 63

\* capacity of the ArrayVec the push calls are made on (the const generic N)
N == 3

\* values the device tree may give (csi-lane-speed, csi-lane-count, rx-channel,
\* i2c-pass-through-all)
LaneSpeeds == {400, 1600}
LaneCounts == {4}
RxChannelValues == {0, 1, 2, 5}
PassThroughValues == {FALSE}
\* outcomes of gpio::Desc::get
GpioOutcomes == {"Ok", "EPROBE_DEFER", "ENOENT"}
\* values REG_FWD_CTL1 may hold when probe starts (0x30 is the reset value)
FwdCtlResetValues == {48}
\* values REG_FWD_CTL1 may hold when init is entered on its own
FwdCtlValues == {48, 63}
\* status bytes the device may report in REG_DEVICE_STS
StatusValues == {223, 220}
\* errors a bus transfer may return
BusErrors == {"EIO", "ENXIO"}
BusResults == {"Ok"} \cup BusErrors

(***************************************************************************)
(* u32 arithmetic. Every operand of the driver is below 2^10 and every      *)
(* shift is by at most 7, so no value reaches the u32 width                *)
(***************************************************************************)

RECURSIVE BitAnd(_, _)
BitAnd(a, b) ==
    IF a = 0 \/ b = 0 THEN 0
    ELSE (a % 2) * (b % 2) + 2 * BitAnd(a \div 2, b \div 2)

RECURSIVE BitOr(_, _)
BitOr(a, b) ==
    IF a = 0 THEN b
    ELSE IF b = 0 THEN a
    ELSE (IF a % 2 = 1 \/ b % 2 = 1 THEN 1 ELSE 0) + 2 * BitOr(a \div 2, b \div 2)

RECURSIVE BitXor(_, _)
BitXor(a, b) ==
    IF a = 0 THEN b
    ELSE IF b = 0 THEN a
    ELSE ((a + b) % 2) + 2 * BitXor(a \div 2, b \div 2)

Shl(a, n) == a * 2^n

Bit(v, n) == (v \div 2^n) % 2

(***************************************************************************)
(* Option and RxPort                                                       *)
(***************************************************************************)
None == <<>>
Some(x) == <<x>>

RxPort == {"Zero", "One", "Both"}

to_u32(p) == CASE p = "Zero" -> 0 [] p = "One" -> 1 [] p = "Both" -> 2

RxPortFrom(value) ==
    CASE value = 0 -> "Zero"
      [] value = 1 -> "One"
      [] value = 2 -> "Both"
      [] OTHER -> "Zero"

VARIABLES
    pc,                 \* position in probe / init
    pass_gpio,          \* Option<gpio::Desc>: None or Some("pass")
    lock_gpio,
    pdb_gpio,
    gpio_requested,     \* the con_ids gpio::Desc::get was called with, in order
    gpio_results,       \* what these calls of gpio::Desc::get returned
    pdb_value,          \* level of the power-down-bar line
    drops,              \* times Drop for Ds90ub954 has run
    csi_lane_count,
    csi_lane_speed,
    test_pattern,
    continuous_clock,
    serializers,        \* [Option<Ds90ub953>; NUM_SERIALIZER]
    dt_serializers,     \* serializers as configured, before any deactivation
    selected_rx_port,   \* Option<RxPort>
    regs,               \* the registers of the device behind the bus
    lastOps,            \* bus transfers and sleeps of the last step
    xferFailed,         \* some bus transfer has failed
    portOps,            \* bus accesses of the per-port sub-sequence in progress
    i,                  \* index of the serializer loop
    ds90ub953,          \* copy of serializers[i] taken at the loop head
    value,              \* local of the read-modify-write steps
    idx,                \* index of the inner loop (id code, test pattern, poll, pins)
    statusReads,        \* reads of REG_DEVICE_STS made by the poll in progress
    sleeps10,           \* msleep(10) calls made by the poll in progress
    backchannel_setup_failed,
    failPc,             \* the step at which the current sub-sequence failed
    tp_result,          \* what init_testpattern returned
    init_result,
    probe_result,
    clientdata,         \* what i2c_set_clientdata has stored: None or Some(driver data)
    outerFail,          \* a transfer outside the serializer loop has failed
    timedOut,           \* the serializers whose back-channel poll ran out of attempts
    calls,              \* harness: read_rx_port / write_rx_port calls made
    selWrites,          \* harness: writes to REG_FPD3_PORT_SEL
    portChanges,        \* harness: calls whose port differs from the previous call's
    lastPort,           \* harness: port of the previous call
    callPorts,          \* harness: the ports of the calls made, in order
    writeFailed,        \* harness: some bus write has failed
    lastCall,           \* harness: the last call and its outcome
    fieldRegAddr,       \* fields: address of the register the field operations act on
    fieldReg,           \* fields: value the bus stores for that register
    fieldLast,          \* fields: the last field operation and its outcome
    array,              \* ArrayVec: [MaybeUninit<T>; N]
    len,                \* ArrayVec: len
    lastPush            \* the last push call and whether it panicked

dtVars == <<pass_gpio, lock_gpio, pdb_gpio, gpio_requested, gpio_results, csi_lane_count,
            csi_lane_speed, test_pattern, continuous_clock>>
serVars == <<serializers, dt_serializers>>
busVars == <<regs, lastOps, xferFailed, portOps>>
loopVars == <<i, ds90ub953, value, idx, statusReads, sleeps10,
              backchannel_setup_failed, failPc>>
resVars == <<tp_result, init_result, probe_result, clientdata, outerFail, timedOut>>
harnessVars == <<calls, selWrites, portChanges, lastPort, callPorts, writeFailed,
                 lastCall, fieldRegAddr, fieldReg, fieldLast, array, len, lastPush>>
vars == <<pc, dtVars, pdb_value, drops, serVars, selected_rx_port, busVars, loopVars,
          resVars, harnessVars>>

Pending == "pending"

(***************************************************************************)
(* The register bus: 8-bit registers (REGMAP_CONFIG = Config::new(8, 8))   *)
(* whose transfers may fail. The device keeps the value of the registers   *)
(* the driver reads back; a write to any other register is seen only as a  *)
(* transfer                                                                *)
(***************************************************************************)
RegAddrs == {REG_RX_PORT_CTL, REG_FWD_CTL1, REG_FPD3_PORT_SEL}

\* what a step did on the bus: res is "Ok" or the error of the transfer
RdOp(addr, val, res) == [op |-> "read", addr |-> addr, val |-> val, res |-> res]
WrOp(addr, val, res) == [op |-> "write", addr |-> addr, val |-> val, res |-> res]
SleepOp(ms) == [op |-> "sleep", addr |-> 0, val |-> ms, res |-> "Ok"]

Failed(ops) == \E k \in 1..Len(ops) : ops[k].res # "Ok"

Store(rs, addr, val) ==
    IF addr \in DOMAIN rs THEN [rs EXCEPT ![addr] = val % 256] ELSE rs

Load(rs, addr) == IF addr \in DOMAIN rs THEN rs[addr] ELSE 0

\* the steps of the closure init_serializer
SubSeqPcs == {"ser_rd_rxctl", "ser_wr_rxctl", "ser_sleep400", "ser_rd_fwd", "ser_wr_fwd",
              "ser_sleep500", "ser_bcc", "poll", "poll_end", "ser_alias", "ser_gpio0",
              "ser_gpio1"}

\* a bus access without its value and result
Access(o) == [op |-> o.op, addr |-> o.addr]

\* the accesses among ops added to the record h, a run of the same access
\* recorded once
RECURSIVE Recorded(_, _)
Recorded(h, ops) ==
    IF ops = <<>> THEN h
    ELSE LET a == Access(Head(ops))
             h1 == IF Head(ops).op = "sleep" \/ (Len(h) > 0 /\ h[Len(h)] = a)
                   THEN h ELSE Append(h, a)
         IN Recorded(h1, Tail(ops))

\* the record starts with the first step of the closure init_serializer and
\* ends with the closure
PortOpsAfter(ops) ==
    IF pc \notin SubSeqPcs THEN <<>>
    ELSE Recorded(IF pc = "ser_rd_rxctl" THEN <<>> ELSE portOps, ops)

\* the step's transfers are recorded
Did(ops) ==
    /\ lastOps' = ops
    /\ xferFailed' = (xferFailed \/ Failed(ops))
    /\ portOps' = PortOpsAfter(ops)

(***************************************************************************)
(* read_rx_port / write_rx_port and the selection cache                    *)
(***************************************************************************)
\* a variant without the cache: every access selects its port
SelectAlways(port) == TRUE

\* if self.selected_rx_port != Some(rx_port)
SelectNeeded(port) == selected_rx_port # Some(port)

\* a variant that selects port One for reading with the write encoding
ReadPortRegAsWrite(port) ==
    CASE port = "Zero" -> 1
      [] port = "One" -> 2
      [] port = "Both" -> 1

\* port_reg of read_rx_port
ReadPortReg(port) ==
    CASE port = "Zero" -> 1
      [] port = "One" -> BitOr(2, Shl(1, RX_READ_PORT))
      [] port = "Both" -> 1

\* port_reg of write_rx_port
WritePortReg(port) ==
    CASE port = "Zero" -> 1
      [] port = "One" -> 2
      [] port = "Both" -> 3

\* a variant that assigns the cache before the port-select write is known to
\* have succeeded
CacheSetBeforeSelect(port) == Some(port)

\* the cache after the port-select write has failed: the `?` returns before
\* self.selected_rx_port is assigned
CacheAfterFailedSelect(port) == selected_rx_port

\* the cache after the port-select write has succeeded (or was not needed)
CacheAfterSelect(port) == Some(port)

\* r1: outcome of the port-select write, r2: outcome of the data read
read_rx_port(port, addr, r1, r2) ==
    IF SelectNeeded(port) /\ r1 # "Ok"
    THEN [ret |-> r1, val |-> 0, sel |-> CacheAfterFailedSelect(port), regs |-> regs,
          ops |-> <<WrOp(REG_FPD3_PORT_SEL, ReadPortReg(port), r1)>>]
    ELSE LET regs1 == IF SelectNeeded(port)
                      THEN Store(regs, REG_FPD3_PORT_SEL, ReadPortReg(port))
                      ELSE regs
             ops1 == IF SelectNeeded(port)
                     THEN <<WrOp(REG_FPD3_PORT_SEL, ReadPortReg(port), "Ok")>>
                     ELSE <<>>
         IN [ret |-> r2, val |-> IF r2 = "Ok" THEN Load(regs1, addr) ELSE 0,
             sel |-> CacheAfterSelect(port), regs |-> regs1,
             ops |-> Append(ops1, RdOp(addr, Load(regs1, addr), r2))]

\* r1: outcome of the port-select write, r2: outcome of the data write
write_rx_port(port, addr, val, r1, r2) ==
    IF SelectNeeded(port) /\ r1 # "Ok"
    THEN [ret |-> r1, val |-> 0, sel |-> CacheAfterFailedSelect(port), regs |-> regs,
          ops |-> <<WrOp(REG_FPD3_PORT_SEL, WritePortReg(port), r1)>>]
    ELSE LET regs1 == IF SelectNeeded(port)
                      THEN Store(regs, REG_FPD3_PORT_SEL, WritePortReg(port))
                      ELSE regs
             ops1 == IF SelectNeeded(port)
                     THEN <<WrOp(REG_FPD3_PORT_SEL, WritePortReg(port), "Ok")>>
                     ELSE <<>>
         IN [ret |-> r2, val |-> 0,
             sel |-> CacheAfterSelect(port),
             regs |-> IF r2 = "Ok" THEN Store(regs1, addr, val) ELSE regs1,
             ops |-> Append(ops1, WrOp(addr, val, r2))]

(***************************************************************************)
(* Values init computes                                                    *)
(***************************************************************************)
\* a variant with the codes of 400 and 800 exchanged
CsiSpeedCodeSwapped(speed) ==
    CASE speed = 400 -> 2
      [] speed = 800 -> 3
      [] OTHER -> 0

CsiSpeedCode(speed) ==
    CASE speed = 400 -> 3
      [] speed = 800 -> 2
      [] OTHER -> 0

\* a variant that takes the number of lanes less one as the code
CsiLaneCodeCountLessOne(count) ==
    CASE count \in 1..4 -> count - 1
      [] OTHER -> CSI_4_LANE

CsiLaneCode(count) ==
    CASE count = 1 -> CSI_1_LANE
      [] count = 2 -> CSI_2_LANE
      [] count = 3 -> CSI_3_LANE
      [] OTHER -> CSI_4_LANE

\* a variant that puts the continuous-clock bit at CSI_ENABLE
CsiCtlValueClockAtEnable(count, cont) ==
    BitOr(BitOr(Shl(1, CSI_ENABLE), Shl(IF cont THEN 1 ELSE 0, CSI_ENABLE)),
          BitOr(Shl(CsiLaneCode(count), CSI_LANE_COUNT), Shl(1, CSI_CAL_EN)))

CsiCtlValue(count, cont) ==
    BitOr(BitOr(Shl(1, CSI_ENABLE), Shl(IF cont THEN 1 ELSE 0, CSI_CONTS_CLOCK)),
          BitOr(Shl(CsiLaneCode(count), CSI_LANE_COUNT), Shl(1, CSI_CAL_EN)))

\* value |= 1 << (PORT0_EN + rx_port.to_u32())
PortEnable(v, port) == BitOr(v, Shl(1, PORT0_EN + to_u32(port)))

\* value &= 0xEF << rx_port.to_u32()
ForwardEnable(v, port) == BitAnd(v, Shl(239, to_u32(port)))

\* a variant that clears the enable bits of both ports
PortDisableBoth(v, port) == BitAnd(v, BitXor(255, 3))

\* val &= 0xFF ^ (1 << (PORT0_EN + rx_port.to_u32()))
PortDisable(v, port) == BitAnd(v, BitXor(255, Shl(1, PORT0_EN + to_u32(port))))

\* val |= 1 << (FWD_PORT0_DIS + rx_port.to_u32())
ForwardDisable(v, port) == BitOr(v, Shl(1, FWD_PORT0_DIS + to_u32(port)))

BccConfigValue(ser) ==
    BitOr(BitOr(BitOr(Shl(BC_FREQ_50M, BC_FREQ_SELECT), Shl(1, BC_CRC_GENERAOTR_ENABLE)),
                BitOr(Shl(1, BC_ALWAYS_ON),
                      Shl(IF ser.i2c_pass_through_all THEN 1 ELSE 0, I2C_PASS_THROUGH_ALL))),
          Shl(1, I2C_PASS_THROUGH))

\* a variant that compares only LOCK, PASS, REFCLK_VALID, CFG_INIT_DONE and
\* CFG_CKSUM_STS (0xdc)
StatusReadyNamedBits(v) == BitAnd(v, 220) = 220

\* a variant that leaves bits 0 and 1 out of the comparison
StatusReadyUpperBits(v) == BitAnd(v, 252) = BitAnd(ExpectedStatus, 252)

\* if (value & 0xff) == 0xdf
StatusReady(v) == BitAnd(v, 255) = ExpectedStatus

(***************************************************************************)
(* State after construction                                                *)
(***************************************************************************)
NoSerializer ==
    [rx_channel |-> "Zero", i2c_address |-> 0, i2c_pass_through_all |-> FALSE,
     gpio_control |-> <<0, 0, 0, 0>>]

Ds90ub953(ch, pta) ==
    [rx_channel |-> ch, i2c_address |-> DefaultI2cAddress, i2c_pass_through_all |-> pta,
     gpio_control |-> <<DefaultGpioControl, DefaultGpioControl, DefaultGpioControl,
                        DefaultGpioControl>>]

NoCall == [fn |-> "none", port |-> "Zero", ret |-> "Ok", sel_before |-> None]

\* no field operation has been made
NoFieldOp ==
    [field |-> [reg |-> 0, name |-> "none", kind |-> "none", hi |-> 0, lo |-> 0,
                table |-> <<>>, access |-> "none"],
     op |-> "none", ret |-> "Ok", set |-> FALSE, variant |-> "none", val |-> 0,
     after |-> "none"]

ResetRegs(fwd) == [a \in RegAddrs |-> IF a = REG_FWD_CTL1 THEN fwd ELSE 0]

Locals0 ==
    /\ i = 0
    /\ ds90ub953 = NoSerializer
    /\ value = 0
    /\ idx = 0
    /\ statusReads = 0
    /\ sleeps10 = 0
    /\ backchannel_setup_failed = FALSE
    /\ failPc = "none"

Results0 ==
    /\ tp_result = Pending
    /\ init_result = Pending
    /\ probe_result = Pending
    /\ clientdata = None
    /\ outerFail = FALSE
    /\ timedOut = {}

\* no push has been made
NoPush == [elem |-> 0, panicked |-> FALSE]

\* a slot of the array that holds no element: MaybeUninit::uninit()
Uninit == "uninit"

\* ArrayVec::default()
ArrayVecDefault ==
    /\ array = [k \in 1..N |-> Uninit]
    /\ len = 0
    /\ lastPush = NoPush

Harness0 ==
    /\ calls = 0
    /\ selWrites = 0
    /\ portChanges = 0
    /\ lastPort = None
    /\ callPorts = <<>>
    /\ writeFailed = FALSE
    /\ lastCall = NoCall
    /\ fieldRegAddr = 0
    /\ fieldReg = 0
    /\ fieldLast = NoFieldOp
    /\ ArrayVecDefault

\* the runtime is about to call probe
Init ==
    /\ pc = "probe"
    /\ pass_gpio = None /\ lock_gpio = None /\ pdb_gpio = None
    /\ gpio_requested = <<>>
    /\ gpio_results = <<>>
    /\ pdb_value = 0 /\ drops = 0
    /\ csi_lane_count = 0 /\ csi_lane_speed = 0
    /\ test_pattern = FALSE /\ continuous_clock = FALSE
    /\ serializers = [k \in 1..NUM_SERIALIZER |-> None]
    /\ dt_serializers = [k \in 1..NUM_SERIALIZER |-> None]
    /\ selected_rx_port = None
    /\ regs \in {ResetRegs(f) : f \in FwdCtlResetValues}
    /\ lastOps = <<>>
    /\ xferFailed = FALSE
    /\ portOps = <<>>
    /\ Locals0 /\ Results0 /\ Harness0

(***************************************************************************)
(* probe                                                                   *)
(***************************************************************************)
\* a variant of Drop that leaves the power-down-bar line as it is
DropKeepsPower == pdb_value' = pdb_value /\ drops' = drops + 1

\* Drop for Ds90ub954: pwr_disable
DropDriverData ==
    /\ pdb_value' = IF pdb_gpio # None THEN 0 ELSE pdb_value
    /\ drops' = drops + 1

\* a variant of probe_callback that stores driver data whatever probe
\* returned
ClientDataStoredAlways(r) == Some("driver_data")

\* Adapter::probe_callback: i2c_set_clientdata(data.into_foreign()) on
\* Ok(data), nothing stored on Err
ClientDataAfterProbe(r) == IF r = "Ok" THEN Some("driver_data") ELSE clientdata

ProbeFails(e) ==
    /\ pc' = "done"
    /\ probe_result' = e
    /\ clientdata' = ClientDataAfterProbe(e)
    /\ UNCHANGED <<tp_result, init_result, outerFail, timedOut>>

\* let Some(_id_info) = id_info else { return Err(ENODEV) }
ProbeEntry ==
    /\ pc = "probe"
    /\ \E matched \in BOOLEAN :
         IF matched THEN pc' = "parse_dt" /\ UNCHANGED resVars
         ELSE ProbeFails("ENODEV")
    /\ UNCHANGED <<dtVars, pdb_value, drops, serVars, selected_rx_port, busVars, loopVars,
                   harnessVars>>

try_get_gpio(con_id, outcome) == IF outcome = "Ok" THEN Some(con_id) ELSE None

\* a variant of ds90ub954_parse_dt that takes EPROBE_DEFER on the lock line as an
\* absent line
ParseDt954LockDeferIgnored ==
    /\ pc = "parse_dt"
    /\ \E gp \in GpioOutcomes, gl \in GpioOutcomes, gd \in GpioOutcomes,
          count \in LaneCounts, speed \in LaneSpeeds,
          tp \in BOOLEAN, cc \in BOOLEAN :
         IF gp = "EPROBE_DEFER" THEN
             /\ gpio_requested' = <<"pass">>
             /\ gpio_results' = <<gp>>
             /\ ProbeFails(gp)
             /\ UNCHANGED <<pass_gpio, lock_gpio, pdb_gpio, csi_lane_count,
                            csi_lane_speed, test_pattern, continuous_clock>>
         ELSE IF gd = "EPROBE_DEFER" THEN
             /\ gpio_requested' = <<"pass", "lock", "pdb">>
             /\ gpio_results' = <<gp, gl, gd>>
             /\ ProbeFails(gd)
             /\ UNCHANGED <<pass_gpio, lock_gpio, pdb_gpio, csi_lane_count,
                            csi_lane_speed, test_pattern, continuous_clock>>
         ELSE
             /\ gpio_requested' = <<"pass", "lock", "pdb">>
             /\ gpio_results' = <<gp, gl, gd>>
             /\ pass_gpio' = try_get_gpio("pass", gp)
             /\ lock_gpio' = try_get_gpio("lock", gl)
             /\ pdb_gpio' = try_get_gpio("pdb", gd)
             /\ csi_lane_count' = count
             /\ csi_lane_speed' = speed
             /\ test_pattern' = tp
             /\ continuous_clock' = cc
             /\ pc' = "regmap_init"
             /\ UNCHANGED resVars
    \* Flags::OutLow: a line that was acquired is driven low
    /\ pdb_value' = 0
    /\ drops' = drops
    /\ UNCHANGED <<serVars, selected_rx_port, busVars, loopVars, harnessVars>>

\* ds90ub954_parse_dt: the three GPIO lines, then the properties
ParseDt954 ==
    /\ pc = "parse_dt"
    /\ \E gp \in GpioOutcomes, gl \in GpioOutcomes, gd \in GpioOutcomes,
          count \in LaneCounts, speed \in LaneSpeeds,
          tp \in BOOLEAN, cc \in BOOLEAN :
         IF gp = "EPROBE_DEFER" THEN
             /\ gpio_requested' = <<"pass">>
             /\ gpio_results' = <<gp>>
             /\ ProbeFails(gp)
             /\ UNCHANGED <<pass_gpio, lock_gpio, pdb_gpio, csi_lane_count,
                            csi_lane_speed, test_pattern, continuous_clock>>
         ELSE IF gl = "EPROBE_DEFER" THEN
             /\ gpio_requested' = <<"pass", "lock">>
             /\ gpio_results' = <<gp, gl>>
             /\ ProbeFails(gl)
             /\ UNCHANGED <<pass_gpio, lock_gpio, pdb_gpio, csi_lane_count,
                            csi_lane_speed, test_pattern, continuous_clock>>
         ELSE IF gd = "EPROBE_DEFER" THEN
             /\ gpio_requested' = <<"pass", "lock", "pdb">>
             /\ gpio_results' = <<gp, gl, gd>>
             /\ ProbeFails(gd)
             /\ UNCHANGED <<pass_gpio, lock_gpio, pdb_gpio, csi_lane_count,
                            csi_lane_speed, test_pattern, continuous_clock>>
         ELSE
             /\ gpio_requested' = <<"pass", "lock", "pdb">>
             /\ gpio_results' = <<gp, gl, gd>>
             /\ pass_gpio' = try_get_gpio("pass", gp)
             /\ lock_gpio' = try_get_gpio("lock", gl)
             /\ pdb_gpio' = try_get_gpio("pdb", gd)
             /\ csi_lane_count' = count
             /\ csi_lane_speed' = speed
             /\ test_pattern' = tp
             /\ continuous_clock' = cc
             /\ pc' = "regmap_init"
             /\ UNCHANGED resVars
    \* Flags::OutLow: a line that was acquired is driven low
    /\ pdb_value' = 0
    /\ drops' = drops
    /\ UNCHANGED <<serVars, selected_rx_port, busVars, loopVars, harnessVars>>

\* regmap::Regmap::init_i2c(client, &REGMAP_CONFIG)
RegmapInit ==
    /\ pc = "regmap_init"
    /\ \E r \in {"Ok", "ENOMEM"} :
         IF r = "Ok" THEN pc' = "parse_dt953" /\ UNCHANGED resVars
         ELSE ProbeFails(r)
    /\ UNCHANGED <<dtVars, pdb_value, drops, serVars, selected_rx_port, busVars, loopVars,
                   harnessVars>>

\* ds90ub953_parse_dt: every entry is read from the same node (serializer = dev)
ParseDt953 ==
    /\ pc = "parse_dt953"
    /\ \E ch \in RxChannelValues, pta \in PassThroughValues :
         /\ serializers' = [k \in 1..NUM_SERIALIZER |-> Some(Ds90ub953(RxPortFrom(ch), pta))]
         /\ dt_serializers' = serializers'
    /\ pc' = "kbox_new"
    /\ UNCHANGED <<dtVars, pdb_value, drops, selected_rx_port, busVars, loopVars, resVars,
                   harnessVars>>

\* KBox::new(driver_data, GFP_KERNEL)?: a failed allocation drops driver_data
AllocDriverData ==
    /\ pc = "kbox_new"
    /\ \E r \in {"Ok", "ENOMEM"} :
         IF r = "Ok" THEN pc' = "pwr_enable" /\ UNCHANGED <<resVars, pdb_value, drops>>
         ELSE ProbeFails(r) /\ DropDriverData
    /\ UNCHANGED <<dtVars, serVars, selected_rx_port, busVars, loopVars, harnessVars>>

\* a variant of probe that does not call pwr_enable
PwrEnableSkipped ==
    /\ pc = "pwr_enable"
    /\ pc' = "msleep6"
    /\ UNCHANGED <<dtVars, pdb_value, drops, serVars, selected_rx_port, busVars, loopVars,
                   resVars, harnessVars>>

\* pwr_enable
PwrEnable ==
    /\ pc = "pwr_enable"
    /\ pdb_value' = IF pdb_gpio # None THEN 1 ELSE pdb_value
    /\ drops' = drops
    /\ pc' = "msleep6"
    /\ UNCHANGED <<dtVars, serVars, selected_rx_port, busVars, loopVars, resVars,
                   harnessVars>>

\* kernel::delay::msleep(6)
SettleSleep ==
    /\ pc = "msleep6"
    /\ Did(<<SleepOp(6)>>)
    /\ pc' = "init_dev_id"
    /\ UNCHANGED <<dtVars, pdb_value, drops, serVars, selected_rx_port, regs, loopVars,
                   resVars, harnessVars>>

\* a variant of probe that runs init again after it has failed
ProbeInitRetried ==
    /\ pc = "init_done"
    /\ init_result # "Ok"
    /\ pc' = "init_dev_id"
    /\ init_result' = Pending
    /\ UNCHANGED <<tp_result, probe_result, clientdata, outerFail, timedOut>>
    /\ UNCHANGED <<dtVars, pdb_value, drops, serVars, selected_rx_port, busVars, loopVars,
                   harnessVars>>

\* a variant in which the error of init leaves driver_data alive
ProbeInitFailedLeaks ==
    /\ pc = "init_done"
    /\ init_result # "Ok"
    /\ ProbeFails(init_result)
    /\ UNCHANGED <<pdb_value, drops>>
    /\ UNCHANGED <<dtVars, serVars, selected_rx_port, busVars, loopVars, harnessVars>>

\* driver_data.init()?: an error drops driver_data
ProbeInitFailed ==
    /\ pc = "init_done"
    /\ init_result # "Ok"
    /\ ProbeFails(init_result)
    /\ DropDriverData
    /\ UNCHANGED <<dtVars, serVars, selected_rx_port, busVars, loopVars, harnessVars>>

\* kernel::delay::msleep(500); Ok(driver_data.into())
ProbeReturnsOk ==
    /\ pc = "init_done"
    /\ init_result = "Ok"
    /\ Did(<<SleepOp(500)>>)
    /\ pc' = "done"
    /\ probe_result' = "Ok"
    /\ clientdata' = ClientDataAfterProbe("Ok")
    /\ UNCHANGED <<tp_result, init_result, outerFail, timedOut>>
    /\ UNCHANGED <<dtVars, pdb_value, drops, serVars, selected_rx_port, regs, loopVars,
                   harnessVars>>

\* the driver core calls remove only for a device whose probe has returned
\* success, and once
RuntimeMayRemove == pc = "done" /\ probe_result = "Ok"

\* Adapter::remove_callback: the runtime detaches the device; the pointer
\* i2c_get_clientdata returns is turned back into the KBox and dropped. With
\* nothing stored the pointer is null and what from_foreign and the drop do
\* is undefined
Remove ==
    /\ RuntimeMayRemove
    /\ IF clientdata # None
       THEN DropDriverData
       ELSE pdb_value' \in {pdb_value, 0} /\ drops' \in {drops, drops + 1}
    /\ clientdata' = None
    /\ pc' = "removed"
    /\ UNCHANGED <<tp_result, init_result, probe_result, outerFail, timedOut>>
    /\ UNCHANGED <<dtVars, serVars, selected_rx_port, busVars, loopVars, harnessVars>>

(***************************************************************************)
(* init: identification and lane configuration                            *)
(***************************************************************************)
\* the `?` of a transfer outside the serializer loop
InitFails(e) ==
    /\ pc' = "init_done"
    /\ init_result' = e
    /\ outerFail' = TRUE
    /\ UNCHANGED <<tp_result, probe_result, clientdata, timedOut>>

\* a variant that ignores the result of the transfer
InitTryIgnored(r, next) == pc' = next /\ UNCHANGED resVars

InitTry(r, next) ==
    IF r = "Ok" THEN pc' = next /\ UNCHANGED resVars
    ELSE InitFails(r)

InitReadDevId ==
    /\ pc = "init_dev_id"
    /\ \E r \in BusResults :
         /\ Did(<<RdOp(REG_I2C_DEV_ID, Load(regs, REG_I2C_DEV_ID), r)>>)
         /\ InitTry(r, "init_rev")
    /\ UNCHANGED <<dtVars, pdb_value, drops, serVars, selected_rx_port, regs, loopVars,
                   harnessVars>>

InitReadRevision ==
    /\ pc = "init_rev"
    /\ \E r \in BusResults :
         /\ Did(<<RdOp(REG_REVISION, Load(regs, REG_REVISION), r)>>)
         /\ InitTry(r, "init_id_code")
    /\ idx' = 0
    /\ UNCHANGED <<dtVars, pdb_value, drops, serVars, selected_rx_port, regs, i, ds90ub953,
                   value, statusReads, sleeps10, backchannel_setup_failed, failPc,
                   harnessVars>>

\* for (i, byte) in id_code.iter_mut().enumerate()
InitReadIdCode ==
    /\ pc = "init_id_code"
    /\ \E r \in BusResults :
         /\ Did(<<RdOp(REG_FPD3_RX_ID0 + idx, Load(regs, REG_FPD3_RX_ID0 + idx), r)>>)
         /\ InitTry(r, IF idx + 1 = RX_ID_LENGTH THEN "bist" ELSE "init_id_code")
    /\ idx' = idx + 1
    /\ UNCHANGED <<dtVars, pdb_value, drops, serVars, selected_rx_port, regs, i, ds90ub953,
                   value, statusReads, sleeps10, backchannel_setup_failed, failPc,
                   harnessVars>>

\* a write outside the serializer loop
InitWrite(at, addr, val, next) ==
    /\ pc = at
    /\ \E r \in BusResults :
         /\ Did(<<WrOp(addr, val, r)>>)
         /\ regs' = IF r = "Ok" THEN Store(regs, addr, val) ELSE regs
         /\ InitTry(r, next)
    /\ UNCHANGED <<dtVars, pdb_value, drops, serVars, selected_rx_port, harnessVars>>

\* disable builtin self test
InitBist ==
    /\ InitWrite("bist", REG_BIST_CONTROL, 0, "pll")
    /\ UNCHANGED loopVars

InitPll ==
    /\ InitWrite("pll", REG_CSI_PLL_CTL, Shl(CsiSpeedCode(csi_lane_speed), CSI_TX_SPEED),
                 "csi_ctl")
    /\ UNCHANGED loopVars

InitCsiCtl ==
    /\ InitWrite("csi_ctl", REG_CSI_CTL, CsiCtlValue(csi_lane_count, continuous_clock),
                 "lane_sleep")
    /\ UNCHANGED loopVars

\* kernel::delay::msleep(500)
LaneSleep ==
    /\ pc = "lane_sleep"
    /\ Did(<<SleepOp(500)>>)
    /\ pc' = "tp_check"
    /\ UNCHANGED <<dtVars, pdb_value, drops, serVars, selected_rx_port, regs, loopVars,
                   resVars, harnessVars>>

(***************************************************************************)
(* init: test pattern                                                      *)
(***************************************************************************)
\* if self.test_pattern is false
TestPatternSkip ==
    /\ pc = "tp_check"
    /\ ~test_pattern
    /\ pc' = "pass_lock"
    /\ UNCHANGED <<dtVars, pdb_value, drops, serVars, selected_rx_port, busVars, loopVars,
                   resVars, harnessVars>>

TestPatternStart ==
    /\ pc = "tp_check"
    /\ test_pattern
    /\ pc' = "tp_write"
    /\ idx' = 1
    /\ UNCHANGED <<dtVars, pdb_value, drops, serVars, selected_rx_port, busVars, i, ds90ub953,
                   value, statusReads, sleeps10, backchannel_setup_failed, failPc,
                   resVars, harnessVars>>

\* a variant that goes on with the next pair after a failed write
TestPatternWriteGoesOn ==
    /\ pc = "tp_write"
    /\ \E r \in BusResults :
         LET pair == DS90UB95X_TP_REG_VAL[idx] IN
         /\ Did(<<WrOp(pair[1], pair[2], r)>>)
         /\ regs' = IF r = "Ok" THEN Store(regs, pair[1], pair[2]) ELSE regs
         /\ IF idx = Len(DS90UB95X_TP_REG_VAL) THEN
                /\ tp_result' = IF tp_result = Pending THEN r ELSE tp_result
                /\ outerFail' = (outerFail \/ r # "Ok")
                /\ pc' = "pass_lock"
                /\ idx' = 0
            ELSE
                /\ tp_result' = IF r # "Ok" /\ tp_result = Pending THEN r ELSE tp_result
                /\ outerFail' = (outerFail \/ r # "Ok")
                /\ pc' = "tp_write"
                /\ idx' = idx + 1
    /\ UNCHANGED <<dtVars, pdb_value, drops, serVars, selected_rx_port, i, ds90ub953,
                   value, statusReads, sleeps10, backchannel_setup_failed, failPc,
                   init_result, probe_result, clientdata, timedOut, harnessVars>>

\* a variant in which init returns the error of init_testpattern
TestPatternWriteFatal ==
    /\ pc = "tp_write"
    /\ \E r \in BusResults :
         LET pair == DS90UB95X_TP_REG_VAL[idx] IN
         /\ Did(<<WrOp(pair[1], pair[2], r)>>)
         /\ regs' = IF r = "Ok" THEN Store(regs, pair[1], pair[2]) ELSE regs
         /\ IF r # "Ok" THEN
                /\ tp_result' = r
                /\ outerFail' = TRUE
                /\ init_result' = r
                /\ pc' = "init_done"
                /\ idx' = 0
            ELSE IF idx = Len(DS90UB95X_TP_REG_VAL) THEN
                /\ tp_result' = "Ok"
                /\ outerFail' = outerFail
                /\ init_result' = init_result
                /\ pc' = "pass_lock"
                /\ idx' = 0
            ELSE
                /\ tp_result' = tp_result
                /\ outerFail' = outerFail
                /\ init_result' = init_result
                /\ pc' = "tp_write"
                /\ idx' = idx + 1
    /\ UNCHANGED <<dtVars, pdb_value, drops, serVars, selected_rx_port, i, ds90ub953,
                   value, statusReads, sleeps10, backchannel_setup_failed, failPc,
                   probe_result, clientdata, timedOut, harnessVars>>

\* one iteration of init_testpattern; its error is dropped by init
TestPatternWrite ==
    /\ pc = "tp_write"
    /\ \E r \in BusResults :
         LET pair == DS90UB95X_TP_REG_VAL[idx] IN
         /\ Did(<<WrOp(pair[1], pair[2], r)>>)
         /\ regs' = IF r = "Ok" THEN Store(regs, pair[1], pair[2]) ELSE regs
         /\ IF r # "Ok" THEN
                /\ tp_result' = r
                /\ outerFail' = TRUE
                /\ pc' = "pass_lock"
                /\ idx' = 0
            ELSE IF idx = Len(DS90UB95X_TP_REG_VAL) THEN
                /\ tp_result' = "Ok"
                /\ outerFail' = outerFail
                /\ pc' = "pass_lock"
                /\ idx' = 0
            ELSE
                /\ tp_result' = tp_result
                /\ outerFail' = outerFail
                /\ pc' = "tp_write"
                /\ idx' = idx + 1
    /\ UNCHANGED <<dtVars, pdb_value, drops, serVars, selected_rx_port, i, ds90ub953,
                   value, statusReads, sleeps10, backchannel_setup_failed, failPc,
                   init_result, probe_result, clientdata, timedOut, harnessVars>>

\* Setting PASS and LOCK to "all enabled receiver ports"
InitPassLock ==
    /\ InitWrite("pass_lock", REG_RX_PORT_CTL, PassLockValue, "loop_head")
    /\ i' = 0
    /\ UNCHANGED <<ds90ub953, value, idx, statusReads, sleeps10,
                   backchannel_setup_failed, failPc>>

(***************************************************************************)
(* init: the serializer loop                                               *)
(***************************************************************************)
rx_port == ds90ub953.rx_channel

cfgFrame == <<dtVars, pdb_value, drops, dt_serializers, harnessVars>>
outerRes == <<tp_result, probe_result, clientdata, outerFail>>

\* for i in 0..self.serializers.len(): the loop is over
LoopExit ==
    /\ pc = "loop_head"
    /\ i >= NUM_SERIALIZER
    /\ pc' = "gpio_input"
    /\ UNCHANGED <<cfgFrame, serializers, selected_rx_port, busVars, loopVars, resVars>>

\* let Some(ds90ub953) = self.serializers[i] else { continue }
LoopSkip ==
    /\ pc = "loop_head"
    /\ i < NUM_SERIALIZER
    /\ serializers[i + 1] = None
    /\ i' = i + 1
    /\ UNCHANGED <<pc, cfgFrame, serializers, selected_rx_port, busVars, ds90ub953,
                   value, idx, statusReads, sleeps10, backchannel_setup_failed, failPc,
                   resVars>>

LoopEnter ==
    /\ pc = "loop_head"
    /\ i < NUM_SERIALIZER
    /\ serializers[i + 1] # None
    /\ ds90ub953' = serializers[i + 1][1]
    /\ pc' = "ser_rd_rxctl"
    /\ statusReads' = 0
    /\ sleeps10' = 0
    /\ UNCHANGED <<cfgFrame, serializers, selected_rx_port, busVars, i, value, idx,
                   backchannel_setup_failed, failPc, resVars>>

\* the end of one iteration (also every `continue` of the cleanup)
LoopContinue ==
    /\ pc' = "loop_head"
    /\ i' = i + 1
    /\ idx' = 0
    /\ value' = 0
    /\ statusReads' = 0
    /\ sleeps10' = 0
    /\ failPc' = "none"
    /\ backchannel_setup_failed' = FALSE

\* a variant in which the error of the sub-sequence is returned from init
SerFailsReturned(step) ==
    /\ pc' = "init_done"
    /\ failPc' = step
    /\ init_result' = "EIO"

\* an Err returned by the closure init_serializer: init_serializer().is_err()
SerFails(step) ==
    /\ pc' = "deactivate"
    /\ failPc' = step
    /\ init_result' = init_result

SerTry(r, next, step) ==
    IF r = "Ok" THEN pc' = next /\ failPc' = failPc /\ init_result' = init_result
    ELSE SerFails(step)

\* let mut value = self.read(ti954::REG_RX_PORT_CTL)?
SerReadRxPortCtl ==
    /\ pc = "ser_rd_rxctl"
    /\ \E r \in BusResults :
         /\ Did(<<RdOp(REG_RX_PORT_CTL, Load(regs, REG_RX_PORT_CTL), r)>>)
         /\ value' = IF r = "Ok" THEN Load(regs, REG_RX_PORT_CTL) ELSE value
         /\ SerTry(r, "ser_wr_rxctl", "ser_rd_rxctl")
    /\ UNCHANGED <<cfgFrame, serializers, selected_rx_port, regs, i, ds90ub953, idx,
                   statusReads, sleeps10, backchannel_setup_failed, outerRes, timedOut>>

\* value |= 1 << (PORT0_EN + rx_port); self.write(ti954::REG_RX_PORT_CTL, value)?
SerWriteRxPortCtl ==
    /\ pc = "ser_wr_rxctl"
    /\ value' = PortEnable(value, rx_port)
    /\ \E r \in BusResults :
         /\ Did(<<WrOp(REG_RX_PORT_CTL, value', r)>>)
         /\ regs' = IF r = "Ok" THEN Store(regs, REG_RX_PORT_CTL, value') ELSE regs
         /\ SerTry(r, "ser_sleep400", "ser_wr_rxctl")
    /\ UNCHANGED <<cfgFrame, serializers, selected_rx_port, i, ds90ub953, idx,
                   statusReads, sleeps10, backchannel_setup_failed, outerRes, timedOut>>

\* wait for receiver to calibrate link
SerSleep400 ==
    /\ pc = "ser_sleep400"
    /\ Did(<<SleepOp(400)>>)
    /\ pc' = "ser_rd_fwd"
    /\ UNCHANGED <<cfgFrame, serializers, selected_rx_port, regs, loopVars, resVars>>

\* let mut value = self.read(ti954::REG_FWD_CTL1)?
SerReadFwdCtl ==
    /\ pc = "ser_rd_fwd"
    /\ \E r \in BusResults :
         /\ Did(<<RdOp(REG_FWD_CTL1, Load(regs, REG_FWD_CTL1), r)>>)
         /\ value' = IF r = "Ok" THEN Load(regs, REG_FWD_CTL1) ELSE value
         /\ SerTry(r, "ser_wr_fwd", "ser_rd_fwd")
    /\ UNCHANGED <<cfgFrame, serializers, selected_rx_port, regs, i, ds90ub953, idx,
                   statusReads, sleeps10, backchannel_setup_failed, outerRes, timedOut>>

\* value &= 0xEF << rx_port; self.write(ti954::REG_FWD_CTL1, value)?
SerWriteFwdCtl ==
    /\ pc = "ser_wr_fwd"
    /\ value' = ForwardEnable(value, rx_port)
    /\ \E r \in BusResults :
         /\ Did(<<WrOp(REG_FWD_CTL1, value', r)>>)
         /\ regs' = IF r = "Ok" THEN Store(regs, REG_FWD_CTL1, value') ELSE regs
         /\ SerTry(r, "ser_sleep500", "ser_wr_fwd")
    /\ UNCHANGED <<cfgFrame, serializers, selected_rx_port, i, ds90ub953, idx,
                   statusReads, sleeps10, backchannel_setup_failed, outerRes, timedOut>>

\* a variant that goes on to the alias write at once
SerSleep500ThenAlias ==
    /\ pc = "ser_sleep500"
    /\ Did(<<SleepOp(500)>>)
    /\ pc' = "ser_alias"
    /\ UNCHANGED <<cfgFrame, serializers, selected_rx_port, regs, loopVars, resVars>>

SerSleep500 ==
    /\ pc = "ser_sleep500"
    /\ Did(<<SleepOp(500)>>)
    /\ pc' = "ser_bcc"
    /\ UNCHANGED <<cfgFrame, serializers, selected_rx_port, regs, loopVars, resVars>>

\* config back channel RX port: self.write_rx_port(rx_port, REG_BCC_CONFIG, ..)?
\* then `let mut backchannel_setup_failed = true; for i in 0..50`
SerBccConfig ==
    /\ pc = "ser_bcc"
    /\ \E r1 \in BusResults, r2 \in BusResults :
         LET c == write_rx_port(rx_port, REG_BCC_CONFIG, BccConfigValue(ds90ub953), r1, r2) IN
         /\ Did(c.ops)
         /\ regs' = c.regs
         /\ selected_rx_port' = c.sel
         /\ SerTry(c.ret, "poll", "ser_bcc")
    /\ backchannel_setup_failed' = TRUE
    /\ idx' = 0
    /\ UNCHANGED <<cfgFrame, serializers, i, ds90ub953, value, statusReads, sleeps10,
                   outerRes, timedOut>>

\* a variant that takes a failed status read as one more attempt without a
\* match
PollAttemptReadErrorRetries ==
    /\ pc = "poll"
    /\ idx < PollAttempts
    /\ sleeps10' = sleeps10 + 1
    /\ statusReads' = statusReads + 1
    /\ \E r \in BusResults, v \in StatusValues :
         /\ r # "Ok" => v = ExpectedStatus
         /\ Did(<<SleepOp(10), RdOp(REG_DEVICE_STS, IF r = "Ok" THEN v ELSE 0, r)>>)
         /\ IF r = "Ok" /\ StatusReady(v) THEN
                /\ backchannel_setup_failed' = FALSE
                /\ pc' = "poll_end"
                /\ UNCHANGED <<idx, failPc, init_result>>
            ELSE
                /\ idx' = idx + 1
                /\ pc' = IF idx + 1 < PollAttempts THEN "poll" ELSE "poll_end"
                /\ UNCHANGED <<backchannel_setup_failed, failPc, init_result>>
    /\ UNCHANGED <<cfgFrame, serializers, selected_rx_port, regs, i, ds90ub953, value,
                   outerRes, timedOut>>

\* one iteration of the poll: msleep(10), read REG_DEVICE_STS, compare
PollAttempt ==
    /\ pc = "poll"
    /\ idx < PollAttempts
    /\ sleeps10' = sleeps10 + 1
    /\ statusReads' = statusReads + 1
    /\ \E r \in BusResults, v \in StatusValues :
         \* a failed read delivers no status byte
         /\ r # "Ok" => v = ExpectedStatus
         /\ Did(<<SleepOp(10), RdOp(REG_DEVICE_STS, IF r = "Ok" THEN v ELSE 0, r)>>)
         /\ IF r # "Ok" THEN
                /\ SerFails("poll")
                /\ UNCHANGED <<idx, backchannel_setup_failed>>
            ELSE IF StatusReady(v) THEN
                /\ backchannel_setup_failed' = FALSE
                /\ pc' = "poll_end"
                /\ UNCHANGED <<idx, failPc, init_result>>
            ELSE
                /\ idx' = idx + 1
                /\ pc' = IF idx + 1 < PollAttempts THEN "poll" ELSE "poll_end"
                /\ UNCHANGED <<backchannel_setup_failed, failPc, init_result>>
    /\ UNCHANGED <<cfgFrame, serializers, selected_rx_port, regs, i, ds90ub953, value,
                   outerRes, timedOut>>

\* if backchannel_setup_failed { return Err(EIO) }
PollTimeout ==
    /\ pc = "poll_end"
    /\ backchannel_setup_failed
    /\ SerFails("timeout")
    /\ timedOut' = timedOut \cup {i + 1}
    /\ UNCHANGED <<cfgFrame, serializers, selected_rx_port, busVars, i, ds90ub953, value,
                   idx, statusReads, sleeps10, backchannel_setup_failed, outerRes>>

\* the poll is over: its index and the counts of its reads and sleeps end with it
PollSucceeded ==
    /\ pc = "poll_end"
    /\ ~backchannel_setup_failed
    /\ pc' = "ser_alias"
    /\ idx' = 0
    /\ statusReads' = 0
    /\ sleeps10' = 0
    /\ UNCHANGED <<cfgFrame, serializers, selected_rx_port, busVars, i, ds90ub953, value,
                   backchannel_setup_failed, failPc, resVars>>

\* a variant that goes on to the GPIO-control writes whatever the alias write
\* returned
SerAliasBestEffort ==
    /\ pc = "ser_alias"
    /\ \E r1 \in BusResults, r2 \in BusResults :
         LET c == write_rx_port(rx_port, REG_SER_ALIAS_ID,
                                Shl(ds90ub953.i2c_address, SER_ALIAS_ID), r1, r2) IN
         /\ Did(c.ops)
         /\ regs' = c.regs
         /\ selected_rx_port' = c.sel
    /\ pc' = "ser_gpio0"
    /\ UNCHANGED <<cfgFrame, serializers, loopVars, resVars>>

\* setup i2c forwarding: self.write_rx_port(rx_port, REG_SER_ALIAS_ID, ..)?
SerAlias ==
    /\ pc = "ser_alias"
    /\ \E r1 \in BusResults, r2 \in BusResults :
         LET c == write_rx_port(rx_port, REG_SER_ALIAS_ID,
                                Shl(ds90ub953.i2c_address, SER_ALIAS_ID), r1, r2) IN
         /\ Did(c.ops)
         /\ regs' = c.regs
         /\ selected_rx_port' = c.sel
         /\ SerTry(c.ret, "ser_gpio0", "ser_alias")
    /\ UNCHANGED <<cfgFrame, serializers, i, ds90ub953, value, idx, statusReads,
                   sleeps10, backchannel_setup_failed, outerRes, timedOut>>

\* a variant in which a failed write of REG_BC_GPIO_CTL0 leaves the closure
SerGpioCtl0Fatal ==
    /\ pc = "ser_gpio0"
    /\ \E r1 \in BusResults, r2 \in BusResults :
         LET c == write_rx_port(rx_port, REG_BC_GPIO_CTL0,
                                BitOr(Shl(ds90ub953.gpio_control[1], BC_GPIO0_SEL),
                                      Shl(ds90ub953.gpio_control[2], BC_GPIO1_SEL)),
                                r1, r2) IN
         /\ Did(c.ops)
         /\ regs' = c.regs
         /\ selected_rx_port' = c.sel
         /\ SerTry(c.ret, "ser_gpio1", "ser_gpio0")
    /\ UNCHANGED <<cfgFrame, serializers, i, ds90ub953, value, idx, statusReads,
                   sleeps10, backchannel_setup_failed, outerRes, timedOut>>

\* Serializer GPIO control: the result of write_rx_port is only logged
SerGpioCtl0 ==
    /\ pc = "ser_gpio0"
    /\ \E r1 \in BusResults, r2 \in BusResults :
         LET c == write_rx_port(rx_port, REG_BC_GPIO_CTL0,
                                BitOr(Shl(ds90ub953.gpio_control[1], BC_GPIO0_SEL),
                                      Shl(ds90ub953.gpio_control[2], BC_GPIO1_SEL)),
                                r1, r2) IN
         /\ Did(c.ops)
         /\ regs' = c.regs
         /\ selected_rx_port' = c.sel
    /\ pc' = "ser_gpio1"
    /\ UNCHANGED <<cfgFrame, serializers, loopVars, resVars>>

\* the closure returns Ok(()) and the iteration ends
SerGpioCtl1 ==
    /\ pc = "ser_gpio1"
    /\ \E r1 \in BusResults, r2 \in BusResults :
         LET c == write_rx_port(rx_port, REG_BC_GPIO_CTL1,
                                BitOr(Shl(ds90ub953.gpio_control[3], BC_GPIO2_SEL),
                                      Shl(ds90ub953.gpio_control[4], BC_GPIO3_SEL)),
                                r1, r2) IN
         /\ Did(c.ops)
         /\ regs' = c.regs
         /\ selected_rx_port' = c.sel
    /\ LoopContinue
    /\ UNCHANGED <<cfgFrame, serializers, ds90ub953, resVars>>

(***************************************************************************)
(* init: deactivation and cleanup of a failed port                         *)
(***************************************************************************)
\* a variant that runs the sub-sequence of the deactivated entry once more
DeactivateAndRetry ==
    /\ pc = "deactivate"
    /\ serializers' = [serializers EXCEPT ![i + 1] = None]
    /\ pc' = "ser_rd_rxctl"
    /\ idx' = 0
    /\ statusReads' = 0
    /\ sleeps10' = 0
    /\ UNCHANGED <<cfgFrame, selected_rx_port, busVars, i, ds90ub953, value,
                   backchannel_setup_failed, failPc, resVars>>

\* self.serializers[i] = None
Deactivate ==
    /\ pc = "deactivate"
    /\ serializers' = [serializers EXCEPT ![i + 1] = None]
    /\ pc' = "cl_rd_rxctl"
    /\ idx' = 0
    /\ statusReads' = 0
    /\ sleeps10' = 0
    /\ UNCHANGED <<cfgFrame, selected_rx_port, busVars, i, ds90ub953, value,
                   backchannel_setup_failed, failPc, resVars>>

\* where the cleanup goes after its step `at` has failed
CleanupAfterFailure(at) == LoopContinue

\* let Ok(mut val) = self.read(ti954::REG_RX_PORT_CTL) else { continue }
CleanupReadRxPortCtl ==
    /\ pc = "cl_rd_rxctl"
    /\ \E r \in BusResults :
         /\ Did(<<RdOp(REG_RX_PORT_CTL, Load(regs, REG_RX_PORT_CTL), r)>>)
         /\ IF r = "Ok" THEN
                /\ value' = Load(regs, REG_RX_PORT_CTL)
                /\ pc' = "cl_wr_rxctl"
                /\ UNCHANGED <<i, idx, statusReads, sleeps10, failPc,
                               backchannel_setup_failed>>
            ELSE CleanupAfterFailure("cl_rd_rxctl")
    /\ UNCHANGED <<cfgFrame, serializers, selected_rx_port, regs, ds90ub953, resVars>>

\* val &= 0xFF ^ (1 << (PORT0_EN + rx_port)); if self.write(..).is_err() { continue }
CleanupWriteRxPortCtl ==
    /\ pc = "cl_wr_rxctl"
    /\ \E r \in BusResults :
         LET val == PortDisable(value, rx_port) IN
         /\ Did(<<WrOp(REG_RX_PORT_CTL, val, r)>>)
         /\ regs' = IF r = "Ok" THEN Store(regs, REG_RX_PORT_CTL, val) ELSE regs
         /\ IF r = "Ok" THEN
                /\ value' = val
                /\ pc' = "cl_rd_fwd"
                /\ UNCHANGED <<i, idx, statusReads, sleeps10, failPc,
                               backchannel_setup_failed>>
            ELSE CleanupAfterFailure("cl_wr_rxctl")
    /\ UNCHANGED <<cfgFrame, serializers, selected_rx_port, ds90ub953, resVars>>

\* let Ok(mut val) = self.read(ti954::REG_FWD_CTL1) else { continue }
CleanupReadFwdCtl ==
    /\ pc = "cl_rd_fwd"
    /\ \E r \in BusResults :
         /\ Did(<<RdOp(REG_FWD_CTL1, Load(regs, REG_FWD_CTL1), r)>>)
         /\ IF r = "Ok" THEN
                /\ value' = Load(regs, REG_FWD_CTL1)
                /\ pc' = "cl_wr_fwd"
                /\ UNCHANGED <<i, idx, statusReads, sleeps10, failPc,
                               backchannel_setup_failed>>
            ELSE CleanupAfterFailure("cl_rd_fwd")
    /\ UNCHANGED <<cfgFrame, serializers, selected_rx_port, regs, ds90ub953, resVars>>

\* val |= 1 << (FWD_PORT0_DIS + rx_port); let _ = self.write(ti954::REG_FWD_CTL1, val)
CleanupWriteFwdCtl ==
    /\ pc = "cl_wr_fwd"
    /\ \E r \in BusResults :
         LET val == ForwardDisable(value, rx_port) IN
         /\ Did(<<WrOp(REG_FWD_CTL1, val, r)>>)
         /\ regs' = IF r = "Ok" THEN Store(regs, REG_FWD_CTL1, val) ELSE regs
    /\ LoopContinue
    /\ UNCHANGED <<cfgFrame, serializers, selected_rx_port, ds90ub953, resVars>>

(***************************************************************************)
(* init: pin configuration                                                 *)
(***************************************************************************)
\* setup gpio forwarding, default all input
InitGpioInput ==
    /\ InitWrite("gpio_input", REG_GPIO_INPUT_CTL, GpioInputAll, "gpio_pin")
    /\ idx' = 0
    /\ UNCHANGED <<i, ds90ub953, value, statusReads, sleeps10, backchannel_setup_failed,
                   failPc>>

\* a variant that goes on with the next pin after a failed write
InitGpioPinBestEffort ==
    /\ pc = "gpio_pin"
    /\ \E r \in BusResults :
         /\ Did(<<WrOp(REG_GPIO0_PIN_CTL + idx, 0, r)>>)
         /\ regs' = IF r = "Ok" THEN Store(regs, REG_GPIO0_PIN_CTL + idx, 0) ELSE regs
         /\ IF idx + 1 = NumGpioPins THEN
                /\ pc' = "init_done"
                /\ init_result' = "Ok"
                /\ UNCHANGED <<tp_result, probe_result, clientdata, outerFail, timedOut>>
            ELSE pc' = "gpio_pin" /\ UNCHANGED resVars
    /\ idx' = idx + 1
    /\ UNCHANGED <<dtVars, pdb_value, drops, serVars, selected_rx_port, i, ds90ub953, value,
                   statusReads, sleeps10, backchannel_setup_failed, failPc, harnessVars>>

\* self.write(ti954::REG_GPIOn_PIN_CTL, 0)? for n = 0..6, then Ok(())
InitGpioPin ==
    /\ pc = "gpio_pin"
    /\ \E r \in BusResults :
         /\ Did(<<WrOp(REG_GPIO0_PIN_CTL + idx, 0, r)>>)
         /\ regs' = IF r = "Ok" THEN Store(regs, REG_GPIO0_PIN_CTL + idx, 0) ELSE regs
         /\ IF r # "Ok" THEN InitFails(r)
            ELSE IF idx + 1 = NumGpioPins THEN
                /\ pc' = "init_done"
                /\ init_result' = "Ok"
                /\ UNCHANGED <<tp_result, probe_result, clientdata, outerFail, timedOut>>
            ELSE pc' = "gpio_pin" /\ UNCHANGED resVars
    /\ idx' = idx + 1
    /\ UNCHANGED <<dtVars, pdb_value, drops, serVars, selected_rx_port, i, ds90ub953, value,
                   statusReads, sleeps10, backchannel_setup_failed, failPc, harnessVars>>

(***************************************************************************)
(* Specifications                                                          *)
(***************************************************************************)
InitSteps ==
    \/ InitReadDevId \/ InitReadRevision \/ InitReadIdCode
    \/ InitBist \/ InitPll \/ InitCsiCtl \/ LaneSleep
    \/ TestPatternSkip \/ TestPatternStart \/ TestPatternWrite
    \/ InitPassLock
    \/ LoopExit \/ LoopEnter
    \/ SerReadRxPortCtl \/ SerWriteRxPortCtl \/ SerSleep400
    \/ SerReadFwdCtl \/ SerWriteFwdCtl \/ SerSleep500
    \/ SerBccConfig \/ PollAttempt \/ PollTimeout \/ PollSucceeded
    \/ SerAlias \/ SerGpioCtl0 \/ SerGpioCtl1
    \/ Deactivate
    \/ CleanupReadRxPortCtl \/ CleanupWriteRxPortCtl
    \/ CleanupReadFwdCtl \/ CleanupWriteFwdCtl
    \/ InitGpioInput \/ InitGpioPin

Next ==
    \/ ProbeEntry \/ ParseDt954 \/ RegmapInit \/ ParseDt953 \/ AllocDriverData
    \/ PwrEnable \/ SettleSleep
    \/ InitSteps
    \/ ProbeInitFailed \/ ProbeReturnsOk \/ Remove

\* one probe of one device, followed by its removal
Spec == Init /\ [][Next]_vars

(***************************************************************************)
(* init entered on a driver value with any serializers array               *)
(***************************************************************************)
SerializerEntries ==
    {None} \cup {Some(Ds90ub953(ch, pta)) : ch \in RxPort, pta \in BOOLEAN}

InitEntered ==
    /\ pc = "init_dev_id"
    /\ pass_gpio = None /\ lock_gpio = None /\ pdb_gpio = Some("pdb")
    /\ gpio_requested = <<"pass", "lock", "pdb">>
    /\ gpio_results = <<"ENOENT", "ENOENT", "Ok">>
    /\ pdb_value = 1 /\ drops = 0
    /\ csi_lane_count = 4 /\ csi_lane_speed = 1600
    /\ test_pattern \in BOOLEAN /\ continuous_clock = FALSE
    /\ serializers \in [1..NUM_SERIALIZER -> SerializerEntries]
    /\ dt_serializers = serializers
    /\ selected_rx_port = None
    /\ regs \in {ResetRegs(f) : f \in FwdCtlValues}
    /\ lastOps = <<SleepOp(6)>>
    /\ xferFailed = FALSE
    /\ portOps = <<>>
    /\ Locals0 /\ Results0 /\ Harness0

\* ds90ub953_parse_dt fills every entry, so only here can the loop head meet a
\* None entry
NextInit == InitSteps \/ LoopSkip

SpecInit == InitEntered /\ [][NextInit]_vars

(***************************************************************************)
(* read_rx_port / write_rx_port called in any order on a driver value      *)
(***************************************************************************)
\* registers the calls are made for
PortScopedRegs == {REG_BCC_CONFIG, REG_SER_ALIAS_ID}

SelectWrites(ops) ==
    Cardinality({k \in 1..Len(ops) : ops[k].op = "write" /\ ops[k].addr = REG_FPD3_PORT_SEL})

FailedWrite(ops) == \E k \in 1..Len(ops) : ops[k].op = "write" /\ ops[k].res # "Ok"

Called(fn, port, c) ==
    /\ regs' = c.regs
    /\ selected_rx_port' = c.sel
    /\ Did(c.ops)
    /\ calls' = calls + 1
    /\ selWrites' = selWrites + SelectWrites(c.ops)
    /\ portChanges' = portChanges + (IF lastPort # Some(port) THEN 1 ELSE 0)
    /\ lastPort' = Some(port)
    /\ callPorts' = Append(callPorts, port)
    /\ writeFailed' = (writeFailed \/ FailedWrite(c.ops))
    /\ lastCall' = [fn |-> fn, port |-> port, ret |-> c.ret, sel_before |-> selected_rx_port]
    /\ UNCHANGED <<pc, dtVars, pdb_value, drops, serVars, loopVars, resVars, fieldRegAddr, fieldReg,
                   fieldLast, array, len, lastPush>>

CallReadRxPort ==
    /\ pc = "calls"
    /\ calls < MaxCalls
    /\ \E port \in RxPort, addr \in PortScopedRegs, r1 \in BusResults, r2 \in BusResults :
         Called("read_rx_port", port, read_rx_port(port, addr, r1, r2))

CallWriteRxPort ==
    /\ pc = "calls"
    /\ calls < MaxCalls
    /\ \E port \in RxPort, addr \in PortScopedRegs, r1 \in BusResults, r2 \in BusResults :
         Called("write_rx_port", port, write_rx_port(port, addr, 94, r1, r2))

InitCalls ==
    /\ pc = "calls"
    /\ pass_gpio = None /\ lock_gpio = None /\ pdb_gpio = Some("pdb")
    /\ gpio_requested = <<"pass", "lock", "pdb">>
    /\ gpio_results = <<"ENOENT", "ENOENT", "Ok">>
    /\ pdb_value = 1 /\ drops = 0
    /\ csi_lane_count = 4 /\ csi_lane_speed = 1600
    /\ test_pattern = FALSE /\ continuous_clock = FALSE
    /\ serializers = [k \in 1..NUM_SERIALIZER |-> None]
    /\ dt_serializers = serializers
    /\ selected_rx_port = None
    /\ regs = ResetRegs(48)
    /\ lastOps = <<>>
    /\ xferFailed = FALSE
    /\ portOps = <<>>
    /\ Locals0 /\ Results0 /\ Harness0

NextCalls == CallReadRxPort \/ CallWriteRxPort

SpecPort == InitCalls /\ [][NextCalls]_vars

(***************************************************************************)
(* Register fields (rust/kernel/regmap.rs): the descriptors and operations *)
(* the macros regmap_field_bit, regmap_field_enum and regmap_field_raw      *)
(* generate, over one register of a bus that stores what is written to it  *)
(***************************************************************************)
\* width of a register value: regmap::Config::new(8, 8)
RegValBits == 8

\* name => bit(pos, rw) in register reg
BitDecl(reg, name, pos) ==
    [reg |-> reg, name |-> name, kind |-> "bit", hi |-> pos, lo |-> pos, table |-> <<>>,
     access |-> "rw"]

\* name => enum([hi:lo], rw, { Variant = value, ... }) in register reg
EnumDecl(reg, name, hi, lo, table) ==
    [reg |-> reg, name |-> name, kind |-> "enum", hi |-> hi, lo |-> lo, table |-> table,
     access |-> "rw"]

\* name => raw([hi:lo], access) in register reg
RawDecl(reg, name, hi, lo, access) ==
    [reg |-> reg, name |-> name, kind |-> "raw", hi |-> hi, lo |-> lo, table |-> <<>>,
     access |-> access]

\* the fields of FIELD_DESCS
NCV6336_FIELDS ==
    { RawDecl(3, "value", 7, 0, "ro"),
      RawDecl(4, "value", 7, 0, "ro"),
      RawDecl(5, "value", 7, 0, "ro"),
      RawDecl(16, "voutvsel1", 6, 0, "rw"), BitDecl(16, "envsel1", 7),
      RawDecl(17, "voutvsel0", 6, 0, "rw"), BitDecl(17, "envsel0", 7),
      BitDecl(18, "dischg", 4),
      BitDecl(20, "vselgt", 0), BitDecl(20, "pwmvsel1", 6), BitDecl(20, "pwmvsel0", 7),
      BitDecl(22, "rearm", 0), BitDecl(22, "rststatus", 1),
      EnumDecl(22, "tpwth", 5, 4,
               << <<"Temp83C", 0>>, <<"Temp94C", 1>>, <<"Temp105C", 2>>, <<"Temp116C", 3>> >>),
      EnumDecl(22, "ipeak", 7, 6,
               << <<"Peak3p5A", 0>>, <<"Peak4p0A", 1>>, <<"Peak4p5A", 2>>, <<"Peak5p0A", 3>> >>) }

\* the declarations the operations are made on: those of FIELD_DESCS and
\* further ones the macros accept, bit fields at the positions FIELD_DESCS
\* leaves out, an enum whose table does not name every value of its bit
\* range, and a raw field that does not start at bit 0
FieldDecls ==
    NCV6336_FIELDS \cup
    { BitDecl(48, "bit2", 2), BitDecl(48, "bit3", 3), BitDecl(48, "bit5", 5),
      EnumDecl(49, "mode", 2, 0, << <<"Off", 0>>, <<"Slow", 1>>, <<"Fast", 5>> >>),
      RawDecl(49, "level", 6, 4, "rw") }

\* regmap_field_bit: reg_field() of a bit field
BitRegField(reg, pos) == [reg |-> reg, lsb |-> pos, msb |-> pos + 1]

\* regmap_field_enum: reg_field() of an enum field
EnumRegField(reg, msb, lsb) == [reg |-> reg, lsb |-> lsb, msb |-> msb]

\* a variant whose descriptor is one bit wider
RawRegFieldWide(reg, msb, lsb) == [reg |-> reg, lsb |-> lsb, msb |-> msb + 1]

\* regmap_field_raw: reg_field() of a raw field
RawRegField(reg, msb, lsb) == [reg |-> reg, lsb |-> lsb, msb |-> msb]

\* regmap_reg_field!: the descriptor FieldDescs holds for a declaration
reg_field(d) ==
    CASE d.kind = "bit" -> BitRegField(d.reg, d.lo)
      [] d.kind = "enum" -> EnumRegField(d.reg, d.hi, d.lo)
      [] d.kind = "raw" -> RawRegField(d.reg, d.hi, d.lo)

\* genmask!(h, l): bits l..h set
genmask(h, l) == Shl(2^(h - l + 1) - 1, l)

\* mask() of a field: genmask!($pos, $pos) for a bit field, genmask!($msb,
\* $lsb) for an enum or raw field
mask(d) == genmask(d.hi, d.lo)

\* the mask of a regmap_field allocated from a descriptor: GENMASK(msb, lsb)
FieldMask(rf) == Shl(2^(rf.msb - rf.lsb + 1) - 1, rf.lsb)

\* regmap_field_read: the register value, masked and shifted down
regmap_field_read(rf, regval) == BitAnd(regval, FieldMask(rf)) \div 2^rf.lsb

\* regmap_field_write and regmap_field_force_write: the bits of the mask are
\* replaced by val shifted up, every other bit is kept; the bus stores
\* RegValBits bits
regmap_field_write(rf, regval, val) ==
    ((regval - BitAnd(regval, FieldMask(rf))) + BitAnd(Shl(val, rf.lsb), FieldMask(rf)))
        % 2^RegValBits

\* regmap_field_update_bits and what is built on it (set_bits, clear_bits):
\* the bits named by `bits` that lie inside the field are replaced by those of val
regmap_field_update_bits(rf, regval, bits, val) ==
    LET m == BitAnd(Shl(bits, rf.lsb), FieldMask(rf))
    IN ((regval - BitAnd(regval, m)) + BitAnd(Shl(val, rf.lsb), m)) % 2^RegValBits

\* a variant in which force_set writes 0
BitWriteValueForceSetZero(op) == IF op = "set" THEN 1 ELSE 0

\* the value set / force_set / clear / force_clear hand to regmap_field_write
BitWriteValue(op) == IF op \in {"set", "force_set"} THEN 1 ELSE 0

\* BitFieldReadOps::is_set: Ok(val == 1)
is_set(d, regval, r) ==
    [ret |-> r, set |-> r = "Ok" /\ regmap_field_read(BitRegField(d.reg, d.lo), regval) = 1]

\* BitFieldWriteOps::set, force_set, clear, force_clear: the register after
\* the call
BitWrite(d, op, regval, r) ==
    IF r = "Ok"
    THEN regmap_field_write(BitRegField(d.reg, d.lo), regval, BitWriteValue(op))
    ELSE regval

\* `val as _`: the discriminant of a variant
Discriminant(d, variant) ==
    d.table[CHOOSE k \in 1..Len(d.table) : d.table[k][1] = variant][2]

\* a variant of try_from that maps an unlisted value to the first variant
try_from_first(d, raw_value) ==
    IF \E k \in 1..Len(d.table) : d.table[k][2] = raw_value
    THEN [ret |-> "Ok",
          variant |-> d.table[CHOOSE k \in 1..Len(d.table) : d.table[k][2] = raw_value][1]]
    ELSE [ret |-> "Ok", variant |-> d.table[1][1]]

\* TryFrom<c_uint> for the enum of a field
try_from(d, raw_value) ==
    IF \E k \in 1..Len(d.table) : d.table[k][2] = raw_value
    THEN [ret |-> "Ok",
          variant |-> d.table[CHOOSE k \in 1..Len(d.table) : d.table[k][2] = raw_value][1]]
    ELSE [ret |-> "EINVAL", variant |-> "none"]

\* EnumFieldReadOps::read: try_from(fields.read(id)?)
EnumRead(d, regval, r) ==
    IF r = "Ok"
    THEN try_from(d, regmap_field_read(EnumRegField(d.reg, d.hi, d.lo), regval))
    ELSE [ret |-> r, variant |-> "none"]

\* EnumFieldWriteOps::write, force_write: the register after the call
EnumWrite(d, variant, regval, r) ==
    IF r = "Ok"
    THEN regmap_field_write(EnumRegField(d.reg, d.hi, d.lo), regval, Discriminant(d, variant))
    ELSE regval

\* RawFieldReadOps::read: fields.read(id)
RawRead(d, regval, r) ==
    [ret |-> r,
     val |-> IF r = "Ok"
             THEN regmap_field_read(RawRegField(d.reg, d.hi, d.lo), regval)
             ELSE 0]

\* RawFieldWriteOps::write, force_write, set_bits, clear_bits: the register
\* after the call
RawWrite(d, op, regval, arg, r) ==
    LET rf == RawRegField(d.reg, d.hi, d.lo)
    IN CASE r # "Ok" -> regval
         [] r = "Ok" /\ op \in {"raw_write", "raw_force_write"} ->
                regmap_field_write(rf, regval, arg)
         [] r = "Ok" /\ op = "set_bits" -> regmap_field_update_bits(rf, regval, arg, arg)
         [] r = "Ok" /\ op = "clear_bits" -> regmap_field_update_bits(rf, regval, arg, 0)

\* the fields declared in the register the operations act on
FieldsHere(kind) == {d \in FieldDecls : d.reg = fieldRegAddr /\ d.kind = kind}

\* an operation on field d has returned; `after` is the operation that came
\* right before on the same field, if it succeeded
FieldDid(d, op, ret, set, variant, val, regval) ==
    /\ pc = "fields"
    /\ fieldReg' = regval
    /\ fieldLast' = [field |-> d, op |-> op, ret |-> ret, set |-> set,
                     variant |-> variant, val |-> val,
                     after |-> IF fieldLast.field = d /\ fieldLast.ret = "Ok"
                               THEN fieldLast.op ELSE "none"]
    /\ UNCHANGED <<pc, dtVars, pdb_value, drops, serVars, selected_rx_port, busVars, loopVars,
                   resVars, calls, selWrites, portChanges, lastPort, callPorts,
                   writeFailed, lastCall, fieldRegAddr, array, len, lastPush>>

CallIsSet ==
    \E d \in FieldsHere("bit"), r \in {"Ok", "EIO"} :
        LET c == is_set(d, fieldReg, r)
        IN FieldDid(d, "is_set", c.ret, c.set, "none", 0, fieldReg)

CallBitWrite(op) ==
    \E d \in FieldsHere("bit"), r \in {"Ok", "EIO"} :
        FieldDid(d, op, r, FALSE, "none", 0, BitWrite(d, op, fieldReg, r))

CallEnumRead ==
    \E d \in FieldsHere("enum"), r \in {"Ok", "EIO"} :
        LET c == EnumRead(d, fieldReg, r)
        IN FieldDid(d, "read", c.ret, FALSE, c.variant, 0, fieldReg)

CallEnumWriteOp(op) ==
    \E d \in FieldsHere("enum"), r \in {"Ok", "EIO"} :
        \E k \in 1..Len(d.table) :
            FieldDid(d, op, r, FALSE, d.table[k][1], 0,
                     EnumWrite(d, d.table[k][1], fieldReg, r))

CallRawRead ==
    \E d \in FieldsHere("raw"), r \in {"Ok", "EIO"} :
        LET c == RawRead(d, fieldReg, r)
        IN FieldDid(d, "raw_read", c.ret, FALSE, "none", c.val, fieldReg)

\* arg: the value of write / force_write, the bits of set_bits / clear_bits
CallRawWrite(op) ==
    \E d \in FieldsHere("raw"), r \in {"Ok", "EIO"}, arg \in {0, 5, 66, 255} :
        /\ d.access = "rw"
        /\ FieldDid(d, op, r, FALSE, "none", arg, RawWrite(d, op, fieldReg, arg, r))

\* any declared register, holding any value, before the first operation
InitFields ==
    /\ pc = "fields"
    /\ pass_gpio = None /\ lock_gpio = None /\ pdb_gpio = None
    /\ gpio_requested = <<>>
    /\ gpio_results = <<>>
    /\ pdb_value = 0 /\ drops = 0
    /\ csi_lane_count = 4 /\ csi_lane_speed = 1600
    /\ test_pattern = FALSE /\ continuous_clock = FALSE
    /\ serializers = [k \in 1..NUM_SERIALIZER |-> None]
    /\ dt_serializers = serializers
    /\ selected_rx_port = None
    /\ regs = ResetRegs(48)
    /\ lastOps = <<>>
    /\ xferFailed = FALSE
    /\ portOps = <<>>
    /\ Locals0 /\ Results0
    /\ calls = 0 /\ selWrites = 0 /\ portChanges = 0 /\ lastPort = None
    /\ callPorts = <<>> /\ writeFailed = FALSE /\ lastCall = NoCall
    /\ fieldRegAddr \in {d.reg : d \in FieldDecls}
    /\ fieldReg \in 0..(2^RegValBits - 1)
    /\ fieldLast = NoFieldOp
    /\ ArrayVecDefault

NextFields ==
    \/ CallIsSet
    \/ CallBitWrite("set") \/ CallBitWrite("force_set")
    \/ CallBitWrite("clear") \/ CallBitWrite("force_clear")
    \/ CallEnumRead
    \/ CallEnumWriteOp("write") \/ CallEnumWriteOp("force_write")
    \/ CallRawRead
    \/ CallRawWrite("raw_write") \/ CallRawWrite("raw_force_write")
    \/ CallRawWrite("set_bits") \/ CallRawWrite("clear_bits")

SpecFields == InitFields /\ [][NextFields]_vars

(***************************************************************************)
(* Register access policy (rust/kernel/regmap.rs): the callbacks            *)
(* define_regmap_field_descs generates from the access flags of the         *)
(* register definitions                                                     *)
(***************************************************************************)
\* mod access
READ == 1
WRITE == 2
PRECIOUS == 4
VOLATILE == 8

\* the register definitions (address, access), in the order they are
\* written: those of FIELD_DESCS, and further ones with the flags FIELD_DESCS
\* does not use, two of them at the same address
RegDefs ==
    << [addr |-> 3, access |-> READ], [addr |-> 4, access |-> READ],
       [addr |-> 5, access |-> READ],
       [addr |-> 16, access |-> BitOr(READ, WRITE)],
       [addr |-> 17, access |-> BitOr(READ, WRITE)],
       [addr |-> 18, access |-> BitOr(READ, WRITE)],
       [addr |-> 20, access |-> BitOr(READ, WRITE)],
       [addr |-> 22, access |-> BitOr(READ, WRITE)],
       [addr |-> 48, access |-> BitOr(READ, VOLATILE)],
       [addr |-> 49, access |-> BitOr(BitOr(READ, WRITE), PRECIOUS)],
       [addr |-> 50, access |-> WRITE],
       [addr |-> 50, access |-> VOLATILE] >>

\* regmap_check_access!, expanded once for every register definition from
\* the k-th on: return true at the first definition at address reg whose
\* access has a bit of type; false after the last
RECURSIVE regmap_check_access(_, _, _)
regmap_check_access(type, reg, k) ==
    IF k > Len(RegDefs) THEN FALSE
    ELSE IF BitAnd(type, RegDefs[k].access) > 0 /\ reg = RegDefs[k].addr THEN TRUE
    ELSE regmap_check_access(type, reg, k + 1)

\* a variant with the flags of is_volatile_reg and is_precious_reg exchanged
AccessTypeSwapped(op) ==
    CASE op = "is_readable_reg" -> READ
      [] op = "is_writeable_reg" -> WRITE
      [] op = "is_volatile_reg" -> PRECIOUS
      [] op = "is_precious_reg" -> VOLATILE

\* the flag each callback of AccessOps checks
AccessType(op) ==
    CASE op = "is_readable_reg" -> READ
      [] op = "is_writeable_reg" -> WRITE
      [] op = "is_volatile_reg" -> VOLATILE
      [] op = "is_precious_reg" -> PRECIOUS

\* the regmap core asks a callback about register reg
CallAccessOp(op) ==
    /\ pc = "access"
    /\ \E reg \in 0..MaxRegAddr :
         fieldLast' = [NoFieldOp EXCEPT !.op = op, !.val = reg,
                                        !.set = regmap_check_access(AccessType(op), reg, 1)]
    /\ UNCHANGED <<pc, dtVars, pdb_value, drops, serVars, selected_rx_port, busVars, loopVars,
                   resVars, calls, selWrites, portChanges, lastPort, callPorts,
                   writeFailed, lastCall, fieldRegAddr, fieldReg, array, len, lastPush>>

InitAccess ==
    /\ pc = "access"
    /\ pass_gpio = None /\ lock_gpio = None /\ pdb_gpio = None
    /\ gpio_requested = <<>>
    /\ gpio_results = <<>>
    /\ pdb_value = 0 /\ drops = 0
    /\ csi_lane_count = 4 /\ csi_lane_speed = 1600
    /\ test_pattern = FALSE /\ continuous_clock = FALSE
    /\ serializers = [k \in 1..NUM_SERIALIZER |-> None]
    /\ dt_serializers = serializers
    /\ selected_rx_port = None
    /\ regs = ResetRegs(48)
    /\ lastOps = <<>>
    /\ xferFailed = FALSE
    /\ portOps = <<>>
    /\ Locals0 /\ Results0 /\ Harness0

NextAccess ==
    \/ CallAccessOp("is_readable_reg") \/ CallAccessOp("is_writeable_reg")
    \/ CallAccessOp("is_volatile_reg") \/ CallAccessOp("is_precious_reg")

SpecAccess == InitAccess /\ [][NextAccess]_vars

(***************************************************************************)
(* ArrayVec<N, T>                                                          *)
(***************************************************************************)
\* the elements pushed
Elems == {7, 8, 9}

\* a variant that stores the element of a push on a full vector in the last
\* slot
PushStoredWhenFull(a, l, elem) ==
    IF l = N
    THEN [array |-> [a EXCEPT ![N] = elem], len |-> l, panicked |-> TRUE]
    ELSE [array |-> [a EXCEPT ![l + 1] = elem], len |-> l + 1, panicked |-> FALSE]

\* ArrayVec::push: if self.len == N { panic!("OOM") }, else the element is
\* stored at index len (index len + 1 of a sequence) and len grows by one
push(a, l, elem) ==
    IF l = N
    THEN [array |-> a, len |-> l, panicked |-> TRUE]
    ELSE [array |-> [a EXCEPT ![l + 1] = elem], len |-> l + 1, panicked |-> FALSE]

\* AsRef<[T]>::as_ref: &self.array[..self.len]
as_ref(a, l) == [k \in 1..l |-> a[k]]

\* a push call; one that panics leaves the vector to the caller that catches
\* the unwinding
CallPush ==
    /\ pc = "arrayvec"
    /\ \E elem \in Elems :
         LET c == push(array, len, elem) IN
         /\ array' = c.array
         /\ len' = c.len
         /\ lastPush' = [elem |-> elem, panicked |-> c.panicked]
    /\ UNCHANGED <<pc, dtVars, pdb_value, drops, serVars, selected_rx_port, busVars, loopVars,
                   resVars, calls, selWrites, portChanges, lastPort, callPorts,
                   writeFailed, lastCall, fieldRegAddr, fieldReg, fieldLast>>

InitArrayVec ==
    /\ pc = "arrayvec"
    /\ pass_gpio = None /\ lock_gpio = None /\ pdb_gpio = None
    /\ gpio_requested = <<>>
    /\ gpio_results = <<>>
    /\ pdb_value = 0 /\ drops = 0
    /\ csi_lane_count = 4 /\ csi_lane_speed = 1600
    /\ test_pattern = FALSE /\ continuous_clock = FALSE
    /\ serializers = [k \in 1..NUM_SERIALIZER |-> None]
    /\ dt_serializers = serializers
    /\ selected_rx_port = None
    /\ regs = ResetRegs(48)
    /\ lastOps = <<>>
    /\ xferFailed = FALSE
    /\ portOps = <<>>
    /\ Locals0 /\ Results0 /\ Harness0

NextArrayVec == CallPush

SpecArrayVec == InitArrayVec /\ [][NextArrayVec]_vars

(***************************************************************************)
(* The regulator operations of the NCV6336 and the callbacks handed to the *)
(* regulator core                                                          *)
(***************************************************************************)
\* Mode of kernel::regulator
RegulatorModes == {"Invalid", "Fast", "Normal", "Idle", "Standby"}

\* the bit fields of the command register
pwmvsel0 == CHOOSE d \in NCV6336_FIELDS : d.name = "pwmvsel0"
pwmvsel1 == CHOOSE d \in NCV6336_FIELDS : d.name = "pwmvsel1"

\* Error::to_errno
to_errno(e) == CASE e = "EIO" -> 0 - 5 [] e = "ENOTSUPP" -> 0 - 524 [] OTHER -> 0 - 22

\* Mode::Normal => clear, Mode::Fast => set, _ => Err(ENOTSUPP): the result
\* and the register after the call
ModeWrite(d, mode, regval, r) ==
    CASE mode = "Normal" -> [ret |-> r, reg |-> BitWrite(d, "clear", regval, r)]
      [] mode = "Fast" -> [ret |-> r, reg |-> BitWrite(d, "set", regval, r)]
      [] OTHER -> [ret |-> "ENOTSUPP", reg |-> regval]

\* Ncv6336::set_mode
set_mode(mode, regval, r) == ModeWrite(pwmvsel0, mode, regval, r)

\* Ncv6336::set_suspend_mode
set_suspend_mode(mode, regval, r) == ModeWrite(pwmvsel1, mode, regval, r)

\* Ncv6336::get_mode
get_mode(regval, r) ==
    LET c == is_set(pwmvsel0, regval, r)
    IN IF c.ret # "Ok" THEN "Invalid" ELSE IF c.set THEN "Fast" ELSE "Normal"

\* Adapter::is_enabled_callback: from_result(|| { T::is_enabled(&mut rdev)?; Ok(0) }),
\* where from_result gives the Ok value or the errno of the Err
is_enabled_callback(res) == IF res.ret = "Ok" THEN 0 ELSE to_errno(res.ret)

RegulatorDid(op, mode, ret, set, val, regval) ==
    /\ pc = "regulator"
    /\ fieldReg' = regval
    /\ fieldLast' = [NoFieldOp EXCEPT !.op = op, !.variant = mode, !.ret = ret,
                                      !.set = set, !.val = val]
    /\ UNCHANGED <<pc, dtVars, pdb_value, drops, serVars, selected_rx_port, busVars, loopVars,
                   resVars, calls, selWrites, portChanges, lastPort, callPorts,
                   writeFailed, lastCall, fieldRegAddr, array, len, lastPush>>

\* the core asks for the enablement state; what Driver::is_enabled returns is
\* any of Ok(true), Ok(false) and Err(EIO)
CallIsEnabled ==
    \E res \in {[ret |-> "Ok", set |-> TRUE], [ret |-> "Ok", set |-> FALSE],
                [ret |-> "EIO", set |-> FALSE]} :
        RegulatorDid("is_enabled", "none", res.ret, res.set, is_enabled_callback(res),
                     fieldReg)

CallSetMode ==
    \E mode \in RegulatorModes, r \in {"Ok", "EIO"} :
        LET c == set_mode(mode, fieldReg, r)
        IN RegulatorDid("set_mode", mode, c.ret, FALSE, 0, c.reg)

CallSetSuspendMode ==
    \E mode \in RegulatorModes, r \in {"Ok", "EIO"} :
        LET c == set_suspend_mode(mode, fieldReg, r)
        IN RegulatorDid("set_suspend_mode", mode, c.ret, FALSE, 0, c.reg)

CallGetMode ==
    \E r \in {"Ok", "EIO"} :
        RegulatorDid("get_mode", get_mode(fieldReg, r), r, FALSE, 0, fieldReg)

InitRegulator ==
    /\ pc = "regulator"
    /\ pass_gpio = None /\ lock_gpio = None /\ pdb_gpio = None
    /\ gpio_requested = <<>>
    /\ gpio_results = <<>>
    /\ pdb_value = 0 /\ drops = 0
    /\ csi_lane_count = 4 /\ csi_lane_speed = 1600
    /\ test_pattern = FALSE /\ continuous_clock = FALSE
    /\ serializers = [k \in 1..NUM_SERIALIZER |-> None]
    /\ dt_serializers = serializers
    /\ selected_rx_port = None
    /\ regs = ResetRegs(48)
    /\ lastOps = <<>>
    /\ xferFailed = FALSE
    /\ portOps = <<>>
    /\ Locals0 /\ Results0
    /\ calls = 0 /\ selWrites = 0 /\ portChanges = 0 /\ lastPort = None
    /\ callPorts = <<>> /\ writeFailed = FALSE /\ lastCall = NoCall
    /\ fieldRegAddr = pwmvsel0.reg
    /\ fieldReg \in 0..(2^RegValBits - 1)
    /\ fieldLast = NoFieldOp
    /\ ArrayVecDefault

NextRegulator == CallIsEnabled \/ CallSetMode \/ CallSetSuspendMode \/ CallGetMode

SpecRegulator == InitRegulator /\ [][NextRegulator]_vars

(***************************************************************************)
(* Positions of init, and the phases of the bring-up they belong to         *)
(***************************************************************************)
\* the transfers before the serializer loop whose error init returns
PreLoopPcs == {"init_dev_id", "init_rev", "init_id_code", "bist", "pll", "csi_ctl",
               "pass_lock"}

\* the steps that follow self.serializers[i] = None
CleanupPcs == {"cl_rd_rxctl", "cl_wr_rxctl", "cl_rd_fwd", "cl_wr_fwd"}

\* the phase a position of probe / init belongs to
Phase ==
    CASE pc \in {"probe", "parse_dt", "regmap_init", "parse_dt953", "kbox_new",
                 "pwr_enable"} -> "Created"
      [] pc \in {"msleep6", "init_dev_id", "init_rev", "init_id_code"} -> "PowerEnabled"
      [] pc \in {"bist", "pll", "csi_ctl"} -> "Identified"
      [] pc \in {"lane_sleep", "tp_check", "tp_write"} -> "LaneConfigured"
      [] pc = "pass_lock" ->
            IF tp_result = "Ok" THEN "TestPatternArmed" ELSE "LaneConfigured"
      [] pc \in {"loop_head", "deactivate"} \cup SubSeqPcs \cup CleanupPcs ->
            "PortsInitializing"
      [] pc \in {"gpio_input", "gpio_pin"} -> "PortsFinalized"
      [] pc = "init_done" -> IF init_result = "Ok" THEN "PortsFinalized" ELSE "ProbeFailed"
      [] pc = "done" -> IF probe_result = "Ok" THEN "Ready" ELSE "ProbeFailed"
      [] pc = "removed" -> "Detached"
      [] OTHER -> "Created"

PhaseOrder == <<"Created", "PowerEnabled", "Identified", "LaneConfigured",
                "TestPatternArmed", "PortsInitializing", "PortsFinalized", "Ready">>

PhaseRank(ph) == CHOOSE n \in 1..Len(PhaseOrder) : PhaseOrder[n] = ph

Ordered(ph) == \E n \in 1..Len(PhaseOrder) : PhaseOrder[n] = ph

\* the entries of serializers that are Some
Active(sers) == {k \in 1..NUM_SERIALIZER : sers[k] # None}

(***************************************************************************)
(* C1                                                                      *)
(***************************************************************************)
C1_NoErrorFromSubSequence ==
    \* while a sub-sequence or its cleanup runs, init has not returned
    /\ pc \in SubSeqPcs \cup CleanupPcs \cup {"deactivate"} => init_result = Pending
    \* an error init returns comes from a transfer outside the loop
    /\ init_result \notin {Pending, "Ok"} => outerFail
    \* with the transfers outside the loop succeeding, probe returns Ok
    /\ pc \in {"done", "removed"} /\ init_result # Pending /\ ~outerFail
         => probe_result = "Ok"

C1_GoesOnWithNext ==
    \* a step of the sub-sequence leads to its next step, to the deactivation or to
    \* the loop head with the next index
    /\ pc \in SubSeqPcs => pc' \in SubSeqPcs \cup {"deactivate", "loop_head"}
    /\ pc \in SubSeqPcs /\ Failed(lastOps') /\ pc \notin {"ser_gpio0", "ser_gpio1"}
         => pc' = "deactivate"
    /\ pc = "poll_end" /\ backchannel_setup_failed => pc' = "deactivate"
    /\ pc = "deactivate" => pc' \in CleanupPcs
    /\ pc \in CleanupPcs => pc' \in CleanupPcs \cup {"loop_head"}
    /\ pc \in SubSeqPcs \cup CleanupPcs /\ pc' = "loop_head" => i' = i + 1

\* C1: a failure of a bus read or write inside one port's sub-sequence (a
\* handshake timeout included) is never returned from init: init goes on with
\* the next serializer, and when the transfers outside the serializer loop
\* succeed probe returns Ok, even with every entry of serializers None.
C1_PortFailureIsolated == [](C1_NoErrorFromSubSequence) /\ [][C1_GoesOnWithNext]_vars

\* every configured port has failed and probe has returned Ok
C1_Witness ==
    /\ pc = "done"
    /\ probe_result = "Ok"
    /\ \A k \in 1..NUM_SERIALIZER : dt_serializers[k] # None /\ serializers[k] = None

(***************************************************************************)
(* C2                                                                      *)
(***************************************************************************)
\* C2: when all 50 status reads of a port's handshake poll return a
\* non-matching status, exactly 50 status reads are made for the port, the
\* sub-sequence fails, the port's entry of serializers becomes None, and init
\* and probe still return Ok when the transfers outside the loop succeed.
C2_PollExhausted ==
    \* the poll goes on only below 50 reads, all of them non-matching
    /\ pc = "poll" => statusReads = idx /\ idx < 50
    \* the poll has failed exactly when 50 reads did not match
    /\ pc = "poll_end" => (backchannel_setup_failed <=> idx = 50)
    /\ pc = "poll_end" /\ backchannel_setup_failed => statusReads = 50
    /\ pc = "deactivate" /\ failPc = "timeout"
         => statusReads = 50 /\ (i + 1) \in timedOut
    \* a port whose poll ran out is deactivated by the next step
    /\ \A k \in timedOut : (pc = "deactivate" /\ k = i + 1) \/ serializers[k] = None
    /\ timedOut # {} /\ ~outerFail /\ init_result # Pending => init_result = "Ok"
    /\ timedOut # {} /\ ~outerFail /\ pc \in {"done", "removed"} => probe_result = "Ok"

\* a poll has run out after its 50th read
C2_Witness ==
    /\ pc = "deactivate"
    /\ failPc = "timeout"
    /\ statusReads = 50
    /\ lastOps = <<SleepOp(10), RdOp(REG_DEVICE_STS, 220, "Ok")>>

(***************************************************************************)
(* C3                                                                      *)
(***************************************************************************)
C3_PollState ==
    /\ pc = "poll" => sleeps10 = statusReads /\ statusReads = idx
    \* the poll ended by a match: idx reads did not match, the next one did
    /\ pc = "poll_end" /\ ~backchannel_setup_failed =>
         /\ statusReads = idx + 1
         /\ statusReads \in 1..50
         /\ sleeps10 = statusReads
         /\ lastOps = <<SleepOp(10), RdOp(REG_DEVICE_STS, 223, "Ok")>>
         /\ serializers[i + 1] # None
         /\ failPc = "none"
    \* no status read is made after the poll, and the port is still active
    /\ pc \in {"ser_alias", "ser_gpio0", "ser_gpio1"} =>
         /\ statusReads = 0
         /\ serializers[i + 1] # None
         /\ failPc = "none"

C3_PollStep ==
    \* every status read comes right after one msleep(10)
    /\ statusReads' # statusReads /\ pc = "poll" =>
         /\ statusReads' = statusReads + 1
         /\ sleeps10' = sleeps10 + 1
         /\ Len(lastOps') = 2
         /\ lastOps'[1] = SleepOp(10)
         /\ lastOps'[2].op = "read" /\ lastOps'[2].addr = REG_DEVICE_STS
    \* a matching read ends the poll
    /\ pc = "poll" /\ lastOps'[2].res = "Ok" /\ lastOps'[2].val = 223 =>
         pc' = "poll_end" /\ ~backchannel_setup_failed'
    \* after the match the alias write is next
    /\ pc = "poll_end" /\ ~backchannel_setup_failed => pc' = "ser_alias"
    /\ pc = "ser_alias" => lastOps'[Len(lastOps')].addr \in {REG_SER_ALIAS_ID, REG_FPD3_PORT_SEL}

\* C3: when the k-th read of the device-status register (1 <= k <= 50) is the
\* first to return the expected status, the poll stops after exactly k status
\* reads, each preceded by one 10 ms sleep, the port is not deactivated by the
\* handshake and the alias write follows; a match on read 50 after 49
\* non-matching reads still initialises the port.
C3_PollStopsAtFirstMatch == [](C3_PollState) /\ [][C3_PollStep]_vars

\* 49 non-matching reads, then a match on the 50th
C3_Witness ==
    /\ pc = "poll_end"
    /\ ~backchannel_setup_failed
    /\ statusReads = 50
    /\ sleeps10 = 50

(***************************************************************************)
(* C4                                                                      *)
(***************************************************************************)
\* entries on rx ports Zero and One, no transfer has failed, the poll of port
\* One (and no other) has run out
C4_Scenario ==
    /\ dt_serializers[1] # None /\ dt_serializers[2] # None
    /\ dt_serializers[1][1].rx_channel = "Zero"
    /\ dt_serializers[2][1].rx_channel = "One"
    /\ ~xferFailed
    /\ timedOut = {2}

\* C4: with entries on rx ports Zero and One, a bus that stores the registers,
\* port Zero's handshake succeeding and port One's failing, init returns Ok,
\* serializers holds only the port Zero entry, the cleanup writes
\* REG_RX_PORT_CTL with port One's enable bit cleared and REG_FWD_CTL1 with
\* port One's forward-disable bit set, and in the final registers port Zero's
\* enable bit is set and its forward-disable bit is clear.
C4_ZeroKeptOneCleaned ==
    C4_Scenario =>
      /\ pc \notin {"poll_end", "deactivate"} =>
           serializers = <<dt_serializers[1], None>>
      \* the first cleanup write
      /\ pc = "cl_rd_fwd" =>
           /\ Len(lastOps) = 1
           /\ lastOps[1].op = "write" /\ lastOps[1].addr = REG_RX_PORT_CTL
           /\ Bit(lastOps[1].val, PORT0_EN + 1) = 0
           /\ Bit(lastOps[1].val, PORT0_EN) = 1
      \* the second cleanup write
      /\ pc = "loop_head" =>
           /\ Len(lastOps) = 1
           /\ lastOps[1].op = "write" /\ lastOps[1].addr = REG_FWD_CTL1
           /\ Bit(lastOps[1].val, FWD_PORT0_DIS + 1) = 1
           /\ Bit(lastOps[1].val, FWD_PORT0_DIS) = 0
      \* the registers from the end of the cleanup on
      /\ pc \in {"loop_head", "gpio_input", "gpio_pin", "init_done"} =>
           /\ Bit(regs[REG_RX_PORT_CTL], PORT0_EN) = 1
           /\ Bit(regs[REG_RX_PORT_CTL], PORT0_EN + 1) = 0
           /\ Bit(regs[REG_FWD_CTL1], FWD_PORT0_DIS) = 0
           /\ Bit(regs[REG_FWD_CTL1], FWD_PORT0_DIS + 1) = 1
      /\ pc = "init_done" => init_result = "Ok"

\* init has returned in the scenario
C4_Witness ==
    /\ C4_Scenario
    /\ pc = "init_done"
    /\ init_result = "Ok"
    /\ serializers[1] # None /\ serializers[2] = None

(***************************************************************************)
(* C5                                                                      *)
(***************************************************************************)
C5_NoPortStepBefore ==
    \* up to the PASS/LOCK write nothing of the serializer loop has happened
    /\ pc \in PreLoopPcs \cup {"lane_sleep", "tp_check", "tp_write"} =>
         /\ i = 0
         /\ serializers = dt_serializers
         /\ selected_rx_port = None
         /\ timedOut = {}
         /\ failPc = "none"
    \* probe returns the error of init
    /\ pc = "done" /\ init_result \notin {Pending, "Ok"} => probe_result = init_result

C5_ReturnsAtOnce ==
    pc \in PreLoopPcs /\ Failed(lastOps') =>
      /\ pc' = "init_done"
      /\ init_result' = lastOps'[1].res
      /\ serializers' = serializers

\* C5: when a register access before the serializer loop fails (the device-ID
\* read, the revision read, one of the 6 ID-code reads, the BIST write, the PLL
\* write, the CSI-control write or the PASS/LOCK write), init returns that error
\* at once, no step of a port's sub-sequence is executed, and probe returns an
\* error.
C5_PreLoopFailureIsFatal == [](C5_NoPortStepBefore) /\ [][C5_ReturnsAtOnce]_vars

\* the PASS/LOCK write has failed and probe has returned its error
C5_Witness ==
    /\ pc = "done"
    /\ probe_result = "ENXIO"
    /\ lastOps = <<WrOp(REG_RX_PORT_CTL, PassLockValue, "ENXIO")>>
    /\ i = 0

(***************************************************************************)
(* C6                                                                      *)
(***************************************************************************)
\* the calls made so far were on ports Zero and One
ZeroOneOnly == \A k \in 1..Len(callPorts) : callPorts[k] \in {"Zero", "One"}

\* C6: from an empty cache and with every bus write succeeding, for a sequence
\* of read_rx_port / write_rx_port calls on ports Zero and One the number of
\* writes to REG_FPD3_PORT_SEL equals the number of port changes (the first
\* access counting as one); Zero, Zero, One, One, Zero makes 3 select writes.
C6_SelectWritesArePortChanges ==
    /\ ~writeFailed /\ ZeroOneOnly => selWrites = portChanges
    /\ ~writeFailed /\ callPorts = <<"Zero", "Zero", "One", "One", "Zero">>
         => selWrites = 3

C6_Witness ==
    /\ ~writeFailed
    /\ callPorts = <<"Zero", "Zero", "One", "One", "Zero">>
    /\ selWrites = 3

(***************************************************************************)
(* C7                                                                      *)
(***************************************************************************)
\* the port-select write of the last call has failed
SelectFailed ==
    /\ lastCall.fn # "none"
    /\ Len(lastOps) >= 1
    /\ lastOps[1].addr = REG_FPD3_PORT_SEL
    /\ lastOps[1].res # "Ok"

C7_AfterFailedSelect ==
    SelectFailed =>
      /\ lastCall.ret = lastOps[1].res
      /\ selected_rx_port = lastCall.sel_before
      /\ Len(lastOps) = 1

C7_CacheStep ==
    \* the next access to the same port selects it again
    /\ SelectFailed /\ calls' = calls + 1 /\ lastCall'.port = lastCall.port =>
         /\ lastOps'[1].op = "write"
         /\ lastOps'[1].addr = REG_FPD3_PORT_SEL
    \* the cache changes only after a successful port-select write
    /\ selected_rx_port' # selected_rx_port =>
         /\ lastOps'[1].op = "write"
         /\ lastOps'[1].addr = REG_FPD3_PORT_SEL
         /\ lastOps'[1].res = "Ok"

\* C7: when the port-select write inside read_rx_port or write_rx_port fails,
\* the call returns that error, selected_rx_port keeps the value it had before
\* the call, no data register is accessed, and the next access to the same port
\* makes the port-select write again; the cache changes only after a
\* port-select write has succeeded.
C7_FailedSelectLeavesCache == [](C7_AfterFailedSelect) /\ [][C7_CacheStep]_vars

\* a select write for a port other than the cached one has failed
C7_Witness ==
    /\ SelectFailed
    /\ selected_rx_port = Some("Zero")
    /\ lastCall.port = "One"
    /\ lastCall.ret = "EIO"

(***************************************************************************)
(* C8                                                                      *)
(***************************************************************************)
\* from the first cleanup step the cleanup goes on to the second
C8_Step ==
    /\ pc = "cl_rd_rxctl" => pc' \in {"cl_wr_rxctl", "cl_rd_fwd"}
    /\ pc = "cl_wr_rxctl" => pc' = "cl_rd_fwd"

\* C8: when a port's sub-sequence fails both cleanup steps are attempted; a
\* failure of the first step (its read or its write of REG_RX_PORT_CTL) does
\* not keep the second step (REG_FWD_CTL1) from being attempted.
C8_SecondCleanupStepAttempted == [][C8_Step]_vars

\* the read of the first cleanup step has failed and the loop has gone on
C8_Witness ==
    /\ pc = "loop_head"
    /\ i >= 1
    /\ serializers[i] = None /\ dt_serializers[i] # None
    /\ Len(lastOps) = 1
    /\ lastOps[1].op = "read" /\ lastOps[1].addr = REG_RX_PORT_CTL
    /\ lastOps[1].res # "Ok"

(***************************************************************************)
(* C9                                                                      *)
(***************************************************************************)
C9_Step ==
    /\ \A k \in 1..NUM_SERIALIZER : serializers[k] = None => serializers'[k] = None
    /\ Active(serializers') \subseteq Active(serializers)
    /\ i' >= i

\* C9: once serializers[i] has been set to None it stays None, the
\* sub-sequence of the entry is never run again, and the set of active entries
\* never grows during init.
C9_DeactivatedStaysOut ==
    /\ [](pc \in SubSeqPcs => i < NUM_SERIALIZER /\ serializers[i + 1] # None)
    /\ [](pc \in CleanupPcs => serializers[i + 1] = None)
    /\ [][C9_Step]_vars

\* the second entry is being brought up after the first has been deactivated
C9_Witness ==
    /\ pc \in SubSeqPcs
    /\ i = 1
    /\ dt_serializers[1] # None /\ serializers[1] = None

(***************************************************************************)
(* C10                                                                     *)
(***************************************************************************)
C10_Step ==
    /\ Phase = "ProbeFailed" => Phase' = "ProbeFailed"
    /\ Phase = "Detached" => Phase' = "Detached"
    /\ Phase' = "Detached" => Phase \in {"Ready", "Detached"}
    /\ Phase' = "Ready" => Phase \in {"PortsFinalized", "Ready"}
    /\ Ordered(Phase') => Ordered(Phase) /\ PhaseRank(Phase') >= PhaseRank(Phase)
    \* only TestPatternArmed may be left out
    /\ Ordered(Phase') /\ Phase' # Phase =>
         \/ PhaseRank(Phase') = PhaseRank(Phase) + 1
         \/ Phase = "LaneConfigured" /\ Phase' = "PortsInitializing"

\* C10: the phases of one probe occur only in the order Created, PowerEnabled,
\* Identified, LaneConfigured, optionally TestPatternArmed, PortsInitializing,
\* PortsFinalized, Ready; no phase is entered twice or after a later one, Ready
\* is reached only through PortsFinalized, and ProbeFailed is terminal.
C10_PhasesInOrder == [](pc = "probe" => Phase = "Created") /\ [][C10_Step]_vars

\* probe has returned Ok after a test pattern was written
C10_Witness ==
    /\ Phase = "Ready"
    /\ tp_result = "Ok"

(***************************************************************************)
(* C11                                                                     *)
(***************************************************************************)
\* a step has made a register read or write
Accessed(ops) == \E k \in 1..Len(ops) : ops[k].op \in {"read", "write"}

C11_DetachStep ==
    pc' = "removed" /\ pc # "removed" =>
      /\ pdb_gpio # None => pdb_value' = 0
      /\ pdb_gpio = None => pdb_value' = pdb_value
      /\ lastOps' = lastOps
      /\ regs' = regs
      /\ xferFailed' = xferFailed
      /\ selected_rx_port' = selected_rx_port

\* C11: when the driver handle is dropped at detach, the power-down-bar GPIO
\* (if present) is driven low and no register read or write is issued.
C11_DetachPowersDown ==
    /\ [](pc = "removed" /\ pdb_gpio # None => pdb_value = 0)
    /\ [][C11_DetachStep]_vars

\* the device has been detached with a power-down-bar line present
C11_Witness ==
    /\ pc = "removed"
    /\ pdb_gpio # None
    /\ pdb_value = 0

(***************************************************************************)
(* C12                                                                     *)
(***************************************************************************)
\* the positions of probe up to and including the settle delay
SettlePcs == {"probe", "parse_dt", "regmap_init", "parse_dt953", "kbox_new",
              "pwr_enable", "msleep6"}

\* the positions of init
InitPcs == PreLoopPcs \cup SubSeqPcs \cup CleanupPcs \cup
           {"lane_sleep", "tp_check", "tp_write", "loop_head", "deactivate",
            "gpio_input", "gpio_pin"}

C12_Powered ==
    \* nothing has been read or written when the settle delay begins
    /\ pc \in SettlePcs => lastOps = <<>> /\ ~xferFailed
    \* the line is high from pwr_enable on, and init starts right after msleep(6)
    /\ pc \in InitPcs \cup {"msleep6"} /\ pdb_gpio # None => pdb_value = 1
    /\ pc = "init_dev_id" => lastOps = <<SleepOp(6)>>

C12_Step ==
    \* no step up to the settle delay reads or writes a register
    /\ pc \in SettlePcs => ~Accessed(lastOps')
    \* registers are read and written only by init
    /\ Accessed(lastOps') /\ (lastOps' # lastOps \/ regs' # regs) => pc \in InitPcs

\* C12: in every probe no register read or write is issued before the
\* power-down-bar GPIO has been driven high (when present) and the 6 ms settle
\* delay has elapsed.
C12_NoAccessBeforeSettle == [](C12_Powered) /\ [][C12_Step]_vars

\* the first register read has been made, with the line present and high
C12_Witness ==
    /\ pc = "init_rev"
    /\ pdb_gpio # None /\ pdb_value = 1
    /\ lastOps = <<RdOp(REG_I2C_DEV_ID, 0, "Ok")>>

(***************************************************************************)
(* C13                                                                     *)
(***************************************************************************)
GpioLines == <<"pass", "lock", "pdb">>

\* some call of gpio::Desc::get has returned EPROBE_DEFER
GpioDeferred == \E k \in 1..Len(gpio_results) : gpio_results[k] = "EPROBE_DEFER"

\* what try_get_gpio leaves for line k when probe goes on
LineAfter(k) == IF gpio_results[k] = "Ok" THEN Some(GpioLines[k]) ELSE None

\* C13: an EPROBE_DEFER from the acquisition of the pass, lock or pdb line
\* aborts device-tree parsing and probe at once with that error (later lines
\* are not requested, the device is not powered, no register is accessed); any
\* other acquisition error leaves the line absent (None) and probe proceeds.
C13_DeferAbortsOtherErrorsIgnored ==
    /\ Len(gpio_results) = Len(gpio_requested)
    /\ gpio_requested = SubSeq(GpioLines, 1, Len(gpio_requested))
    /\ GpioDeferred =>
         \* the deferred line is the last one requested
         /\ \A k \in 1..Len(gpio_results) :
              gpio_results[k] = "EPROBE_DEFER" <=> k = Len(gpio_results)
         /\ pc = "done" /\ probe_result = "EPROBE_DEFER"
         /\ pass_gpio = None /\ lock_gpio = None /\ pdb_gpio = None
         /\ pdb_value = 0
         /\ lastOps = <<>> /\ ~xferFailed
         /\ init_result = Pending
    /\ ~GpioDeferred /\ pc # "probe" /\ pc # "parse_dt" /\ gpio_results # <<>> =>
         /\ Len(gpio_results) = 3
         /\ pass_gpio = LineAfter(1)
         /\ lock_gpio = LineAfter(2)
         /\ pdb_gpio = LineAfter(3)
         /\ probe_result # "EPROBE_DEFER"
         /\ pc = "done" /\ probe_result # "Ok" =>
              probe_result = "ENOMEM" \/ probe_result = init_result

\* the lock line was deferred after the pass line was found absent
C13_Witness ==
    /\ pc = "done"
    /\ gpio_results = <<"ENOENT", "EPROBE_DEFER">>
    /\ gpio_requested = <<"pass", "lock">>
    /\ probe_result = "EPROBE_DEFER"

(***************************************************************************)
(* C14                                                                     *)
(***************************************************************************)
\* the registers DS90UB95X_TP_REG_VAL is written to
TpRegs == {DS90UB95X_TP_REG_VAL[k][1] : k \in 1..Len(DS90UB95X_TP_REG_VAL)}

\* a step has written a register of the test pattern
TpWritten(ops) == \E k \in 1..Len(ops) : ops[k].op = "write" /\ ops[k].addr \in TpRegs

C14_State ==
    /\ pc = "tp_write" => test_pattern /\ init_result = Pending
    /\ ~test_pattern => tp_result = Pending /\ pc # "tp_write"
    \* the PASS/LOCK write starts from the same state with or without a test
    \* pattern, written or failed
    /\ pc = "pass_lock" =>
         /\ init_result = Pending
         /\ i = 0 /\ value = 0
         /\ serializers = dt_serializers
         /\ selected_rx_port = None
         /\ regs[REG_RX_PORT_CTL] = 0 /\ regs[REG_FPD3_PORT_SEL] = 0
         /\ tp_result = Pending <=> ~test_pattern
    \* an error returned by init is never that of a test-pattern write
    /\ pc = "init_done" /\ init_result # "Ok" =>
         /\ ~TpWritten(lastOps)
         /\ lastOps[1].res = init_result

C14_Step ==
    /\ pc = "tp_write" => pc' \in {"tp_write", "pass_lock"} /\ init_result' = Pending
    /\ pc = "tp_write" /\ Failed(lastOps') =>
         pc' = "pass_lock" /\ tp_result' = lastOps'[1].res
    /\ pc = "tp_check" /\ ~test_pattern => pc' = "pass_lock" /\ lastOps' = lastOps
    \* only init_testpattern writes the registers of the test pattern
    /\ TpWritten(lastOps') /\ lastOps' # lastOps => pc = "tp_write" /\ test_pattern
    /\ pc = "pass_lock" =>
         lastOps'[1].op = "write" /\ lastOps'[1].addr = REG_RX_PORT_CTL
    /\ pc = "pass_lock" /\ ~Failed(lastOps') => pc' = "loop_head"

\* C14: with test_pattern enabled, a failing write of the test-pattern
\* sequence does not make init fail: bring-up goes on with the PASS/LOCK write
\* and the serializer loop as if no test pattern had been requested; with
\* test_pattern disabled no test-pattern write is issued.
C14_TestPatternFailureIgnored == [](C14_State) /\ [][C14_Step]_vars

\* init has returned Ok after a test-pattern write failed
C14_Witness ==
    /\ pc = "init_done"
    /\ init_result = "Ok"
    /\ test_pattern
    /\ tp_result = "EIO"

(***************************************************************************)
(* init up to the lane configuration, for the values csi-lane-speed and     *)
(* csi-lane-count may have (both are u32 properties that are not validated) *)
(***************************************************************************)
LaneSpeedInputs == {0, 1, 399, 400, 401, 800, 801, 1600, 3200}
LaneCountInputs == 0..MaxLaneCount

InitLane ==
    /\ pc = "init_dev_id"
    /\ pass_gpio = None /\ lock_gpio = None /\ pdb_gpio = Some("pdb")
    /\ gpio_requested = <<"pass", "lock", "pdb">>
    /\ gpio_results = <<"ENOENT", "ENOENT", "Ok">>
    /\ pdb_value = 1 /\ drops = 0
    /\ csi_lane_count \in LaneCountInputs
    /\ csi_lane_speed \in LaneSpeedInputs
    /\ test_pattern = FALSE
    /\ continuous_clock \in BOOLEAN
    /\ serializers = [k \in 1..NUM_SERIALIZER |-> None]
    /\ dt_serializers = serializers
    /\ selected_rx_port = None
    /\ regs = ResetRegs(48)
    /\ lastOps = <<SleepOp(6)>>
    /\ xferFailed = FALSE
    /\ portOps = <<>>
    /\ Locals0 /\ Results0 /\ Harness0

NextLane ==
    \/ InitReadDevId \/ InitReadRevision \/ InitReadIdCode
    \/ InitBist \/ InitPll \/ InitCsiCtl \/ LaneSleep

SpecLane == InitLane /\ [][NextLane]_vars

\* a step has written `val` to `addr`, whether or not the transfer succeeded
Wrote(ops, addr, val) ==
    /\ Len(ops) = 1
    /\ ops[1].op = "write" /\ ops[1].addr = addr /\ ops[1].val = val

(***************************************************************************)
(* C15                                                                     *)
(***************************************************************************)
SpeedCodeOf(speed) == IF speed = 400 THEN 3 ELSE IF speed = 800 THEN 2 ELSE 0

C15_Step ==
    pc = "pll" =>
      /\ Wrote(lastOps', REG_CSI_PLL_CTL, SpeedCodeOf(csi_lane_speed))
      /\ lastOps'[1].val \in 0..3

\* C15: for every value of csi_lane_speed the 2-bit PLL-speed code written
\* during lane configuration is 0b11 for 400, 0b10 for 800 and 0b00 for 1600 or
\* any other value.
C15_SpeedCode ==
    /\ [](pc = "csi_ctl" =>
            lastOps = <<WrOp(REG_CSI_PLL_CTL, SpeedCodeOf(csi_lane_speed), "Ok")>>)
    /\ [][C15_Step]_vars

\* code 0b10 has been written for a lane speed of 800
C15_Witness ==
    /\ pc = "csi_ctl"
    /\ csi_lane_speed = 800
    /\ lastOps = <<WrOp(REG_CSI_PLL_CTL, 2, "Ok")>>

(***************************************************************************)
(* C16                                                                     *)
(***************************************************************************)
LaneCodeOf(count) ==
    IF count = 1 THEN CSI_1_LANE
    ELSE IF count = 2 THEN CSI_2_LANE
    ELSE IF count = 3 THEN CSI_3_LANE
    ELSE CSI_4_LANE

\* the lane-count field of a value of REG_CSI_CTL (2 bits at CSI_LANE_COUNT)
LaneCountField(v) == (v \div 2^CSI_LANE_COUNT) % 4

C16_Step ==
    pc = "csi_ctl" =>
      /\ Len(lastOps') = 1
      /\ lastOps'[1].op = "write" /\ lastOps'[1].addr = REG_CSI_CTL
      /\ LaneCountField(lastOps'[1].val) = LaneCodeOf(csi_lane_count)
      \* the lane count never makes the step fail
      /\ ~Failed(lastOps') => pc' = "lane_sleep" /\ init_result' = Pending
      /\ Failed(lastOps') => init_result' = lastOps'[1].res

\* C16: for every value of csi_lane_count the lane-count code written into the
\* CSI control register is the 1-lane code for 1, the 2-lane code for 2, the
\* 3-lane code for 3 and the 4-lane code for anything else; an out-of-range
\* lane count is never an error.
C16_LaneCode ==
    /\ [](init_result \in {Pending} \cup BusErrors)
    /\ [](init_result # Pending => Failed(lastOps))
    /\ [][C16_Step]_vars

\* the 4-lane code has been written for a lane count out of range
C16_Witness ==
    /\ pc = "lane_sleep"
    /\ csi_lane_count = 6
    /\ LaneCountField(lastOps[1].val) = CSI_4_LANE
    /\ lastOps[1].res = "Ok"

(***************************************************************************)
(* C17                                                                     *)
(***************************************************************************)
\* C17 as stated: lane configuration writes the PLL-speed code and the
\* lane-count code into one control register in a single combined write, so
\* the write of the PLL-speed code is a write of REG_CSI_CTL.
C17_OneRegister ==
    pc = "csi_ctl" => lastOps[1].op = "write" /\ lastOps[1].addr = REG_CSI_CTL

C17_Step ==
    /\ pc = "pll" => Wrote(lastOps', REG_CSI_PLL_CTL, SpeedCodeOf(csi_lane_speed))
    /\ pc = "pll" /\ ~Failed(lastOps') => pc' = "csi_ctl"
    /\ pc = "csi_ctl" =>
         Wrote(lastOps', REG_CSI_CTL,
               1 + (IF continuous_clock THEN 2 ELSE 0)
                 + 16 * LaneCodeOf(csi_lane_count) + 64)
    /\ pc = "csi_ctl" /\ ~Failed(lastOps') => pc' = "lane_sleep"

\* C17 (amended): lane configuration makes two register writes: the
\* PLL-speed code alone to REG_CSI_PLL_CTL, then one write to REG_CSI_CTL that
\* combines the lane-count code with the enable-CSI-output, continuous-clock
\* and lane-calibration-enable bits.
C17_TwoWrites == [][C17_Step]_vars

\* the combined write of REG_CSI_CTL with continuous clock and two lanes
C17_Witness ==
    /\ pc = "lane_sleep"
    /\ continuous_clock /\ csi_lane_count = 2
    /\ lastOps = <<WrOp(REG_CSI_CTL, 99, "Ok")>>

(***************************************************************************)
(* Register fields                                                         *)
(***************************************************************************)
\* C18: for every bit field with read and write access, over a bus that
\* stores what is written, is_set() called right after a successful set() or
\* force_set() of the field returns true, and right after a successful
\* clear() or force_clear() it returns false
C18_SetThenIsSet ==
    (fieldLast.op = "is_set" /\ fieldLast.ret = "Ok") =>
        /\ fieldLast.after \in {"set", "force_set"} => fieldLast.set
        /\ fieldLast.after \in {"clear", "force_clear"} => ~fieldLast.set

\* is_set() has returned true right after force_set() of pwmvsel1, the bit
\* field below pwmvsel0
C18_Witness ==
    /\ fieldLast.op = "is_set" /\ fieldLast.ret = "Ok"
    /\ fieldLast.field = BitDecl(20, "pwmvsel1", 6)
    /\ fieldLast.after = "force_set"
    /\ fieldLast.set

\* a step that is a set, force_set, clear or force_clear of a bit field leaves
\* every bit of the register but the field's own as it was
C19_Step ==
    fieldLast'.op \in {"set", "force_set", "clear", "force_clear"} =>
        \A k \in 0..(RegValBits - 1) :
            k # fieldLast'.field.lo => Bit(fieldReg', k) = Bit(fieldReg, k)

\* C19: set(), clear(), force_set() and force_clear() of a bit field change
\* only the bit at the field's position: every other bit of the register,
\* the adjacent higher bit included, keeps the value it had before the call
C19_OnlyOwnBitChanges == [][C19_Step]_vars

\* set() of pwmvsel1 (bit 6) has succeeded and bit 7 of the register, the
\* bit of pwmvsel0, is 0
C19_Witness ==
    /\ fieldLast.op = "set" /\ fieldLast.ret = "Ok"
    /\ fieldLast.field = BitDecl(20, "pwmvsel1", 6)
    /\ Bit(fieldReg, 6) = 1 /\ Bit(fieldReg, 7) = 0

\* the numeric value the bits [hi:lo] of the register hold
C20_FieldBits(d) == (fieldReg \div 2^d.lo) % 2^(d.hi - d.lo + 1)

\* read() has returned without a bus error: it has failed with EINVAL exactly
\* when the value of the field's bits is not in the variant table
C20_State ==
    (fieldLast.op = "read" /\ fieldLast.ret \notin BusErrors) =>
        LET d == fieldLast.field
            listed == \E k \in 1..Len(d.table) : d.table[k][2] = C20_FieldBits(d)
        IN /\ ~listed => fieldLast.ret = "EINVAL" /\ fieldLast.variant = "none"
           /\ listed => fieldLast.ret = "Ok"

\* read() right after a successful write(variant) or force_write(variant) of
\* the same field returns that variant
C20_Step ==
    ( /\ fieldLast.op \in {"write", "force_write"} /\ fieldLast.ret = "Ok"
      /\ fieldLast'.op = "read" /\ fieldLast'.field = fieldLast.field
      /\ fieldLast'.ret \notin BusErrors )
    => (fieldLast'.ret = "Ok" /\ fieldLast'.variant = fieldLast.variant)

\* C20: for every enum field, over a bus that stores what is written,
\* write(variant) or force_write(variant) followed by read() returns the same
\* variant; if the field's bits hold a value that is not in the declared
\* variant table, read() fails with EINVAL and returns no variant
C20_EnumRoundTrip == [](C20_State) /\ [][C20_Step]_vars

\* read() has returned Fast right after a write to the field whose table
\* names only 0, 1 and 5 of the eight values of its three bits
C20_Witness ==
    /\ fieldLast.op = "read" /\ fieldLast.ret = "Ok"
    /\ fieldLast.field.name = "mode"
    /\ fieldLast.after = "write"
    /\ fieldLast.variant = "Fast"
    /\ C20_FieldBits(fieldLast.field) = 5

\* the numeric value the declared bits [hi:lo] of field d hold in regval
C21_Bits(d, regval) == (regval \div 2^d.lo) % 2^(d.hi - d.lo + 1)

\* a read() of a raw field has succeeded right after the successful
\* operation ops of the same field
C21_ReadAfter(ops) ==
    /\ fieldLast.op \in ops /\ fieldLast.ret = "Ok"
    /\ fieldLast'.op = "raw_read" /\ fieldLast'.field = fieldLast.field
    /\ fieldLast'.ret = "Ok"

\* write(v) then read() returns v restricted to the width of the field
C21_WriteRead ==
    C21_ReadAfter({"raw_write", "raw_force_write"}) =>
        fieldLast'.val = fieldLast.val % 2^(fieldLast.field.hi - fieldLast.field.lo + 1)

\* set_bits(m) then read() returns r with (r & m) == m
C21_SetBitsRead ==
    C21_ReadAfter({"set_bits"}) => BitAnd(fieldLast'.val, fieldLast.val) = fieldLast.val

\* the same, for bits m that all lie inside the field
C21_SetBitsInsideRead ==
    ( /\ C21_ReadAfter({"set_bits"})
      /\ fieldLast.val < 2^(fieldLast.field.hi - fieldLast.field.lo + 1) )
    => BitAnd(fieldLast'.val, fieldLast.val) = fieldLast.val

\* a write to a raw field leaves the bits of every other field declared in
\* the register as they were
C21_Siblings ==
    fieldLast'.op \in {"raw_write", "raw_force_write", "set_bits", "clear_bits"} =>
        \A d2 \in FieldDecls :
            (d2.reg = fieldLast'.field.reg /\ d2 # fieldLast'.field) =>
                C21_Bits(d2, fieldReg') = C21_Bits(d2, fieldReg)

\* C21 as stated: for every raw field, write(v) then read() returns v
\* restricted to the field's mask; set_bits(m) then read() returns a value r
\* with (r & m) == m, for every m; and a write to one field leaves every
\* sibling field that shares the register unchanged
C21_RawLawsAnyBits == [][C21_WriteRead /\ C21_SetBitsRead /\ C21_Siblings]_vars

\* C21, amended: for every raw field, write(v) then read() returns v
\* restricted to the field's mask; set_bits(m) then read() returns a value r
\* with (r & m) == m whenever every bit of m lies inside the field; and a
\* write to one field leaves every sibling field that shares the register
\* unchanged
C21_RawLaws == [][C21_WriteRead /\ C21_SetBitsInsideRead /\ C21_Siblings]_vars

\* read() of the raw field [6:4] has returned 5 right after a set_bits
C21_Witness ==
    /\ fieldLast.op = "raw_read" /\ fieldLast.ret = "Ok"
    /\ fieldLast.field = RawDecl(49, "level", 6, 4, "rw")
    /\ fieldLast.after = "set_bits"
    /\ fieldLast.val = 5

\* the descriptors generated for the fields of the register operated on
C22_Table == {d \in FieldDecls : d.reg = fieldRegAddr}

\* C22: in every field-descriptor table generated by
\* define_regmap_field_descs each descriptor has msb >= lsb, the descriptor
\* of a bit field covers exactly one bit (msb == lsb == its position,
\* matching its mask()), and no two fields of the same register have
\* overlapping bit ranges
C22_DescriptorsWellFormed ==
    /\ \A d \in C22_Table : reg_field(d).msb >= reg_field(d).lsb
    /\ \A d \in C22_Table :
           d.kind = "bit" =>
               /\ reg_field(d).msb = d.lo /\ reg_field(d).lsb = d.lo
               /\ genmask(reg_field(d).msb, reg_field(d).lsb) = mask(d)
    /\ \A d1, d2 \in C22_Table :
           d1 # d2 =>
               \/ reg_field(d1).msb < reg_field(d2).lsb
               \/ reg_field(d2).msb < reg_field(d1).lsb

\* the fields of the register command (0x14) have been allocated and
\* operated on: the descriptor of pwmvsel1, bit(6, rw), ends at bit 7, where
\* the descriptor of pwmvsel0 starts, and mask() of pwmvsel1 is bit 6 alone
C22_Witness ==
    /\ fieldRegAddr = 20
    /\ fieldLast.field = BitDecl(20, "pwmvsel1", 6)
    /\ reg_field(fieldLast.field).msb = reg_field(BitDecl(20, "pwmvsel0", 7)).lsb
    /\ mask(fieldLast.field) = 64

(***************************************************************************)
(* Register access policy                                                  *)
(***************************************************************************)
\* position of a flag in the access bits
C23_FlagBit(op) ==
    CASE op = "is_readable_reg" -> 0
      [] op = "is_writeable_reg" -> 1
      [] op = "is_precious_reg" -> 2
      [] op = "is_volatile_reg" -> 3

\* C23: for every register address a, is_readable_reg(a) is true exactly
\* when a register definition at address a has READ in its access flags,
\* is_writeable_reg(a) exactly when one has WRITE, is_volatile_reg(a)
\* exactly when one has VOLATILE and is_precious_reg(a) exactly when one has
\* PRECIOUS; for an address with no register definition all four are false
C23_AccessExact ==
    fieldLast.op \in {"is_readable_reg", "is_writeable_reg", "is_volatile_reg",
                      "is_precious_reg"} =>
        /\ fieldLast.set <=>
               \E k \in 1..Len(RegDefs) :
                   /\ RegDefs[k].addr = fieldLast.val
                   /\ Bit(RegDefs[k].access, C23_FlagBit(fieldLast.op)) = 1
        /\ (\A k \in 1..Len(RegDefs) : RegDefs[k].addr # fieldLast.val) => ~fieldLast.set

\* is_volatile_reg has answered true for address 50, where the second of
\* two register definitions has VOLATILE
C23_Witness ==
    /\ fieldLast.op = "is_volatile_reg"
    /\ fieldLast.val = 50
    /\ fieldLast.set

(***************************************************************************)
(* The i2c adapter: driver data stored by probe and dropped by remove       *)
(***************************************************************************)
\* driver data is stored only by a probe that returned success, a failed
\* probe has stored none, and after remove the destructor has run once and
\* nothing is stored
C24_State ==
    /\ clientdata # None => probe_result = "Ok"
    /\ probe_result \notin {Pending, "Ok"} => clientdata = None
    /\ pc = "removed" => probe_result = "Ok" /\ clientdata = None /\ drops = 1

\* remove takes the stored driver data and runs its destructor once, and it
\* is called only after a probe that returned success and stored the data
C24_Step ==
    pc' = "removed" /\ pc # "removed" =>
        /\ probe_result = "Ok" /\ clientdata # None
        /\ clientdata' = None
        /\ drops = 0 /\ drops' = 1

\* C24: the remove callback takes and drops driver data only if a preceding
\* probe callback returned success and stored it; a failed probe stores no
\* driver data, and after a successful probe followed by remove the
\* driver's destructor has run exactly once
C24_DriverDataLifecycle == [](C24_State) /\ [][C24_Step]_vars

\* the device has been removed after a successful probe
C24_Witness ==
    /\ pc = "removed"
    /\ probe_result = "Ok"
    /\ clientdata = None
    /\ drops = 1

(***************************************************************************)
(* Port selection                                                          *)
(***************************************************************************)
\* the value the claim gives for the port-select write of a call
C25_Encoding(fn, port) ==
    IF fn = "read_rx_port"
    THEN CASE port = "Zero" -> 1 [] port = "One" -> 2 + 2^RX_READ_PORT [] port = "Both" -> 1
    ELSE CASE port = "Zero" -> 1 [] port = "One" -> 2 [] port = "Both" -> 3

\* C25: on a cache miss read_rx_port writes to the port-select register
\* 0b01 for port Zero, 0b10 | (1 << RX_READ_PORT) for port One and the
\* port-Zero encoding 0b01 for Both; write_rx_port writes 0b01 for Zero,
\* 0b10 for One and 0b11 for Both. The write is the first transfer of the
\* call
C25_SelectEncoding ==
    (lastCall.fn # "none" /\ lastCall.sel_before # Some(lastCall.port)) =>
        /\ Len(lastOps) >= 1
        /\ lastOps[1].op = "write"
        /\ lastOps[1].addr = REG_FPD3_PORT_SEL
        /\ lastOps[1].val = C25_Encoding(lastCall.fn, lastCall.port)

\* read_rx_port was called for Both while port One was selected and has
\* written the port-Zero encoding
C25_Witness ==
    /\ lastCall.fn = "read_rx_port" /\ lastCall.port = "Both"
    /\ lastCall.sel_before = Some("One")
    /\ Len(lastOps) = 2
    /\ lastOps[1] = WrOp(REG_FPD3_PORT_SEL, 1, "Ok")

\* the last call has issued its data transfer
C26_DataIssued ==
    /\ lastCall.fn # "none"
    /\ Len(lastOps) >= 1
    /\ lastOps[Len(lastOps)].addr # REG_FPD3_PORT_SEL

\* the select encoding of a port for a direction
C26_Select(fn, port) ==
    IF fn = "read_rx_port" THEN ReadPortReg(port) ELSE WritePortReg(port)

\* C26: whenever read_rx_port(p) issues its data read the value last
\* successfully written to REG_FPD3_PORT_SEL is the read-select encoding of
\* p, and whenever write_rx_port(p) issues its data write it is the
\* write-select encoding of p, whatever calls came before
C26_SelectMatchesDirection ==
    C26_DataIssued =>
        Load(regs, REG_FPD3_PORT_SEL) = C26_Select(lastCall.fn, lastCall.port)

\* read_rx_port(One) has issued its data read on a cache hit while the
\* port-select register holds the write-select encoding of port One
C26_Witness ==
    /\ C26_DataIssued
    /\ lastCall.fn = "read_rx_port" /\ lastCall.port = "One"
    /\ lastCall.sel_before = Some("One")
    /\ Load(regs, REG_FPD3_PORT_SEL) = WritePortReg("One")
    /\ WritePortReg("One") # ReadPortReg("One")

(***************************************************************************)
(* Enabling a port                                                         *)
(***************************************************************************)
\* the forwarding write of the step clears the forward-disable bit of the
\* port and takes every other bit of the register from the value read
C27_Step ==
    (pc = "ser_wr_fwd" /\ rx_port \in {"Zero", "One"}) =>
        /\ Len(lastOps') = 1
        /\ lastOps'[1].op = "write"
        /\ lastOps'[1].addr = REG_FWD_CTL1
        /\ \A b \in 0..7 :
             Bit(lastOps'[1].val, b) =
                 IF b = FWD_PORT0_DIS + to_u32(rx_port) THEN 0 ELSE Bit(value, b)

\* C27: enabling CSI forwarding writes REG_FWD_CTL1 with the forward-disable
\* bit of the port (FWD_PORT0_DIS + port) cleared and every other bit of the
\* 8-bit register equal to the value just read, for port Zero and port One
C27_ForwardClearsOnlyOwnBit == [][C27_Step]_vars

\* the forwarding write for port One has gone out as 0x1e after 0x3f was
\* read: bit 5 is cleared and so is bit 0
C27_Witness ==
    /\ pc = "ser_sleep500"
    /\ rx_port = "One"
    /\ lastOps = <<WrOp(REG_FWD_CTL1, 30, "Ok")>>
    /\ Load(regs, REG_FWD_CTL1) = 30

\* the enable bits of the ports a channel covers: PORT0_EN for Zero,
\* PORT1_EN (the bit above it) for One, both for Both
C28_EnableBits(port) ==
    CASE port = "Zero" -> {PORT0_EN}
      [] port = "One" -> {PORT0_EN + 1}
      [] port = "Both" -> {PORT0_EN, PORT0_EN + 1}

\* the write of REG_RX_PORT_CTL made by the step has the bits of `to` at
\* `bit` and every other bit as read
C28_Writes(to, bit) ==
    /\ Len(lastOps') = 1
    /\ lastOps'[1].op = "write"
    /\ lastOps'[1].addr = REG_RX_PORT_CTL
    /\ \A b \in 0..7 :
         Bit(lastOps'[1].val, b) = IF b \in to THEN bit ELSE Bit(value, b)

C28_Step ==
    /\ pc = "ser_wr_rxctl" => C28_Writes(C28_EnableBits(rx_port), 1)
    /\ pc = "cl_wr_rxctl" => C28_Writes(C28_EnableBits(rx_port), 0)

\* C28: for every rx_channel (Zero, One, Both) the enable step writes
\* REG_RX_PORT_CTL with the enable bit of each port the channel covers set
\* (PORT0_EN for Zero, PORT1_EN for One, both for Both) and the other bits as
\* read, and the cleanup of a failed port clears exactly those bits
C28_EnableCoversChannel == [][C28_Step]_vars

\* the enable write for channel Both has gone out as 0x3c: neither port
\* enable bit is set
C28_Witness ==
    /\ pc = "ser_sleep400"
    /\ rx_port = "Both"
    /\ lastOps = <<WrOp(REG_RX_PORT_CTL, 60, "Ok")>>
    /\ Bit(Load(regs, REG_RX_PORT_CTL), PORT0_EN) = 0
    /\ Bit(Load(regs, REG_RX_PORT_CTL), PORT0_EN + 1) = 0

(***************************************************************************)
(* The status the poll waits for                                           *)
(***************************************************************************)
\* the byte with exactly the five named status bits set (0xdc)
C29_NamedBits ==
    2^LOCK + 2^PASS + 2^REFCLK_VALID + 2^CFG_INIT_DONE + 2^CFG_CKSUM_STS

\* a poll attempt whose status read succeeded ends the poll as ready exactly
\* when the low byte read is `pattern`
C29_ReadyIff(pattern) ==
    (pc = "poll" /\ Len(lastOps') = 2 /\ lastOps'[2].res = "Ok") =>
        /\ lastOps'[2].op = "read" /\ lastOps'[2].addr = REG_DEVICE_STS
        /\ (~backchannel_setup_failed') <=> (lastOps'[2].val % 256 = pattern)
        /\ (~backchannel_setup_failed') => pc' = "poll_end"

C29_StepNamed == C29_ReadyIff(C29_NamedBits)

\* C29 as stated: the poll succeeds if and only if the low byte of the
\* device status equals the expected pattern, and that pattern is exactly
\* the LOCK, PASS, REFCLK_VALID, CFG_INIT_DONE and CFG_CKSUM_STS bits set
C29_ReadyIffNamedBits == [][C29_StepNamed]_vars

C29_Step == C29_ReadyIff(C29_NamedBits + 2^1 + 2^0)

\* C29: the poll succeeds if and only if the low byte of the device status
\* equals 0xdf, the LOCK, PASS, REFCLK_VALID, CFG_INIT_DONE and
\* CFG_CKSUM_STS bits together with bits 0 and 1 set and bit 5 clear; any
\* other value is not ready
C29_ReadyIffPattern == [][C29_Step]_vars

\* a status with exactly the five named bits set has been read and the poll
\* goes on
C29_Witness ==
    /\ pc = "poll"
    /\ idx >= 1
    /\ backchannel_setup_failed
    /\ lastOps = <<SleepOp(10), RdOp(REG_DEVICE_STS, C29_NamedBits, "Ok")>>

(***************************************************************************)
(* Order of the accesses of one port                                       *)
(***************************************************************************)
\* the accesses the claim lists, in its order
C30_Chain ==
    <<[op |-> "write", addr |-> REG_RX_PORT_CTL],
      [op |-> "write", addr |-> REG_FWD_CTL1],
      [op |-> "write", addr |-> REG_BCC_CONFIG],
      [op |-> "read", addr |-> REG_DEVICE_STS],
      [op |-> "write", addr |-> REG_SER_ALIAS_ID],
      [op |-> "write", addr |-> REG_BC_GPIO_CTL0],
      [op |-> "write", addr |-> REG_BC_GPIO_CTL1]>>

C30_Listed(a) == \E n \in 1..Len(C30_Chain) : C30_Chain[n] = a

\* the listed accesses the sub-sequence in progress has made so far, the
\* polls as one entry
C30_Made == SelectSeq(portOps, C30_Listed)

\* C30: the bus accesses of a per-port sub-sequence come in the order
\* REG_RX_PORT_CTL enable write, REG_FWD_CTL1 forwarding write, port-scoped
\* REG_BCC_CONFIG write, status polls, alias write, GPIO-control writes, none
\* left out before a later one; and REG_SER_ALIAS_ID, REG_BC_GPIO_CTL0 and
\* REG_BC_GPIO_CTL1 are not written for a port whose poll did not succeed
C30_AccessOrder ==
    /\ Len(C30_Made) <= Len(C30_Chain)
    /\ C30_Made = SubSeq(C30_Chain, 1, Len(C30_Made))
    /\ Len(C30_Made) >= 5 => ~backchannel_setup_failed

\* a sub-sequence has run to its end and has made all seven accesses
C30_Witness ==
    /\ pc = "loop_head"
    /\ C30_Made = C30_Chain
    /\ ~backchannel_setup_failed

(***************************************************************************)
(* Failures of the GPIO-control writes                                     *)
(***************************************************************************)
\* after the write of REG_BC_GPIO_CTL0, failed or not, the write of
\* REG_BC_GPIO_CTL1 is next; after that one, failed or not, the iteration
\* ends with the entry still Some and without the cleanup
C31_Step ==
    /\ pc = "ser_gpio0" =>
         /\ pc' = "ser_gpio1"
         /\ serializers' = serializers
         /\ failPc' = failPc /\ init_result' = init_result
    /\ pc = "ser_gpio1" =>
         /\ pc' = "loop_head"
         /\ i' = i + 1
         /\ serializers' = serializers /\ serializers[i + 1] # None
         /\ failPc' = failPc /\ init_result' = init_result
    /\ pc \in {"ser_gpio0", "ser_gpio1"} =>
         \A k \in 1..Len(lastOps') :
             lastOps'[k].addr \in {REG_FPD3_PORT_SEL, REG_BC_GPIO_CTL0, REG_BC_GPIO_CTL1}

\* C31: a failure of either back-channel GPIO-control write does not
\* deactivate the port: the second write is still attempted after the first
\* fails, the sub-sequence returns success, no cleanup write is issued and
\* the serializer entry stays active
C31_GpioCtlFailureIgnored == [][C31_Step]_vars

\* the write of REG_BC_GPIO_CTL1 has failed, the iteration is over and the
\* entry is still Some
C31_Witness ==
    /\ pc = "loop_head"
    /\ i >= 1
    /\ lastOps # <<>>
    /\ lastOps[Len(lastOps)].op = "write"
    /\ lastOps[Len(lastOps)].addr = REG_BC_GPIO_CTL1
    /\ lastOps[Len(lastOps)].res # "Ok"
    /\ serializers[i] # None

(***************************************************************************)
(* The test-pattern table                                                  *)
(***************************************************************************)
\* the table has 31 pairs: the page select 0xB0 first, then the address
\* register 0xB1 and the data register 0xB2 in turn
C32_Table ==
    /\ Len(DS90UB95X_TP_REG_VAL) = 31
    /\ DS90UB95X_TP_REG_VAL[1] = <<176, 0>>
    /\ \A k \in 2..31 :
         DS90UB95X_TP_REG_VAL[k][1] = IF k % 2 = 0 THEN 177 ELSE 178

C32_State ==
    /\ C32_Table
    /\ pc = "tp_write" => idx \in 1..31 /\ tp_result = Pending

\* init_testpattern starts with the first pair; each step writes the pair at
\* the index and nothing else; after a write that succeeded the next pair is
\* next, after the last pair the result is Ok; a failed write ends the
\* function with its error
C32_Step ==
    /\ (pc = "tp_check" /\ pc' = "tp_write") => idx' = 1
    /\ pc = "tp_write" =>
         /\ lastOps' = <<WrOp(DS90UB95X_TP_REG_VAL[idx][1], DS90UB95X_TP_REG_VAL[idx][2],
                              lastOps'[1].res)>>
         /\ (lastOps'[1].res = "Ok" /\ idx < 31) => pc' = "tp_write" /\ idx' = idx + 1
         /\ (lastOps'[1].res = "Ok" /\ idx = 31) => pc' # "tp_write" /\ tp_result' = "Ok"
         /\ lastOps'[1].res # "Ok" => pc' # "tp_write" /\ tp_result' = lastOps'[1].res
    /\ (pc # "tp_check" /\ pc' = "tp_write") => pc = "tp_write"

\* C32: init_testpattern issues the 31 (register, value) pairs of
\* DS90UB95X_TP_REG_VAL as bus writes in table order (page select 0xB0
\* first, then alternating 0xB1 address and 0xB2 data writes) and stops at
\* the first failing write, issuing none of the later pairs and returning
\* that error
C32_TableOrderStopAtFailure == [](C32_State) /\ [][C32_Step]_vars

\* init_testpattern has ended at the failing write of a pair in the middle of
\* the table
C32_Witness ==
    /\ pc = "pass_lock"
    /\ tp_result \notin {"Ok", Pending}
    /\ Len(lastOps) = 1
    /\ lastOps[1] = WrOp(178, 43, tp_result)

(***************************************************************************)
(* Power at the end of probe                                               *)
(***************************************************************************)
\* C33: at the end of every probe attempt the power-down-bar line, when
\* present, is high if and only if probe returned Ok: when probe fails after
\* the power-enable (init returned an error) the line has been driven low
\* again before probe returns
C33_PowerIffProbeOk ==
    (pc = "done" /\ pdb_gpio # None) =>
        /\ (pdb_value = 1) <=> (probe_result = "Ok")
        /\ pdb_value \in {0, 1}
        /\ probe_result # "Ok" => (init_result # Pending => drops = 1)

\* probe has returned the error of init, with the line present and low again
C33_Witness ==
    /\ pc = "done"
    /\ pdb_gpio # None
    /\ init_result \notin {"Ok", Pending}
    /\ probe_result = init_result
    /\ pdb_value = 0
    /\ drops = 1

(***************************************************************************)
(* A read error during the poll                                            *)
(***************************************************************************)
\* a failed status read leaves the poll at once; it and the timeout lead to
\* the same deactivation, which sets the entry to None and starts the
\* cleanup; deactivation and cleanup read no status and do not sleep
C34_Step ==
    /\ (pc = "poll" /\ Len(lastOps') = 2 /\ lastOps'[2].res # "Ok") =>
         /\ lastOps'[2].op = "read" /\ lastOps'[2].addr = REG_DEVICE_STS
         /\ pc' = "deactivate"
         /\ idx < PollAttempts
         /\ timedOut' = timedOut
         /\ init_result' = init_result
    /\ (pc = "poll_end" /\ backchannel_setup_failed) => pc' = "deactivate"
    /\ pc = "deactivate" =>
         /\ pc' = "cl_rd_rxctl"
         /\ serializers' = [serializers EXCEPT ![i + 1] = None]
         /\ lastOps' = lastOps
    /\ pc \in CleanupPcs =>
         /\ pc' \in CleanupPcs \cup {"loop_head"}
         /\ \A k \in 1..Len(lastOps') :
              lastOps'[k].op # "sleep" /\ lastOps'[k].addr \in {REG_RX_PORT_CTL, REG_FWD_CTL1}

\* C34: a bus read error during the handshake poll of a port ends that poll
\* immediately (no further status read or sleep for this port), and the port
\* is deactivated and cleaned up in the same way as on a timeout, without
\* the remaining attempts being used
C34_ReadErrorEndsPoll == [][C34_Step]_vars

\* the cleanup after a failed status read has reached its last step, the
\* entry is None and the poll was not counted as timed out
C34_Witness ==
    /\ pc = "cl_wr_fwd"
    /\ failPc = "poll"
    /\ (i + 1) \notin timedOut
    /\ serializers[i + 1] = None
    /\ Len(lastOps) = 1
    /\ lastOps[1].op = "read" /\ lastOps[1].addr = REG_FWD_CTL1

(***************************************************************************)
(* A failed alias write                                                    *)
(***************************************************************************)
C35_GpioCtlWrite(ops) ==
    \E k \in 1..Len(ops) :
        ops[k].op = "write" /\ ops[k].addr \in {REG_BC_GPIO_CTL0, REG_BC_GPIO_CTL1}

\* the alias write is made only after the handshake has succeeded; while its
\* failure is being handled the position is the deactivation or the cleanup
C35_State ==
    /\ pc = "ser_alias" => ~backchannel_setup_failed
    /\ failPc = "ser_alias" =>
         /\ pc \in {"deactivate"} \cup CleanupPcs
         /\ ~backchannel_setup_failed
         /\ ~C35_GpioCtlWrite(portOps) /\ ~C35_GpioCtlWrite(lastOps)
         /\ pc \in CleanupPcs => serializers[i + 1] = None

\* a failed alias write (or port-select write before it) leads to the
\* deactivation; the deactivation sets the entry to None and the first cleanup
\* access follows; no GPIO-control write is made on the way
C35_Step ==
    /\ (pc = "ser_alias" /\ Failed(lastOps')) =>
         /\ lastOps'[Len(lastOps')].addr \in {REG_SER_ALIAS_ID, REG_FPD3_PORT_SEL}
         /\ pc' = "deactivate" /\ failPc' = "ser_alias"
         /\ serializers' = serializers
    /\ (failPc = "ser_alias" /\ pc = "deactivate") =>
         /\ pc' = "cl_rd_rxctl"
         /\ serializers' = [serializers EXCEPT ![i + 1] = None]
    /\ (failPc = "ser_alias" /\ pc = "cl_rd_rxctl") =>
         /\ Len(lastOps') = 1
         /\ lastOps'[1].op = "read" /\ lastOps'[1].addr = REG_RX_PORT_CTL
    /\ failPc = "ser_alias" => pc' \notin {"ser_gpio0", "ser_gpio1"}

C36_PinRegs ==
    {REG_GPIO_INPUT_CTL} \cup {REG_GPIO0_PIN_CTL + n : n \in 0..6}

\* a pin-configuration step writes its own register; when the write fails
\* init returns that error at once, whatever the ports did, and probe returns
\* the error of init
C36_Step ==
    /\ pc \in {"gpio_input", "gpio_pin"} =>
         /\ Len(lastOps') = 1
         /\ lastOps'[1].op = "write"
         /\ lastOps'[1].addr =
                IF pc = "gpio_input" THEN REG_GPIO_INPUT_CTL ELSE REG_GPIO0_PIN_CTL + idx
         /\ lastOps'[1].res # "Ok" =>
                pc' = "init_done" /\ init_result' = lastOps'[1].res
    /\ (pc = "init_done" /\ init_result # "Ok") =>
         /\ pc' = "done" /\ probe_result' = init_result /\ probe_result' # "Ok"
         /\ lastOps' = lastOps
    /\ (pc' = "gpio_pin" /\ pc # "gpio_pin") => (pc = "gpio_input" /\ idx' = 0)
    /\ pc' = "gpio_pin" => ~Failed(lastOps')

\* C36: a failure of any of the final pin-configuration writes
\* (REG_GPIO_INPUT_CTL or REG_GPIO0_PIN_CTL .. REG_GPIO6_PIN_CTL) makes init
\* and probe return an error even when every port was initialised
\* successfully, and the pin-control writes after the failing one are not
\* attempted
C36_PinFailureIsFatal == [][C36_Step]_vars

\* probe has returned the error of the write of REG_GPIO3_PIN_CTL with both
\* ports initialised
C36_Witness ==
    /\ pc = "done"
    /\ probe_result \notin {"Ok", Pending}
    /\ init_result = probe_result
    /\ \A k \in 1..NUM_SERIALIZER : serializers[k] # None
    /\ lastOps = <<WrOp(REG_GPIO0_PIN_CTL + 3, 0, probe_result)>>
    /\ lastOps[1].addr \in C36_PinRegs

(***************************************************************************)
(* One entry per receive port                                              *)
(***************************************************************************)
\* C37: the serializer entries produced by ds90ub953_parse_dt have pairwise
\* distinct rx_channel values (one entry per receive port), so that the
\* cleanup of a failed entry never disables the port or the forwarding of
\* another entry that is still active
C37_DistinctChannels ==
    /\ \A j \in 1..NUM_SERIALIZER, k \in 1..NUM_SERIALIZER :
         (j < k /\ dt_serializers[j] # None /\ dt_serializers[k] # None) =>
             dt_serializers[j][1].rx_channel # dt_serializers[k][1].rx_channel
    /\ pc \in CleanupPcs =>
         \A k \in 1..NUM_SERIALIZER :
             (k # i + 1 /\ serializers[k] # None) =>
                 serializers[k][1].rx_channel # rx_port

\* the cleanup of the second entry has cleared the enable bit of the port of
\* the first entry, which is still active
C37_Witness ==
    /\ pc = "cl_rd_fwd"
    /\ i = 1
    /\ serializers[1] # None /\ serializers[2] = None
    /\ serializers[1][1].rx_channel = rx_port
    /\ dt_serializers[1] = dt_serializers[2]
    /\ Len(lastOps) = 1
    /\ lastOps[1].op = "write" /\ lastOps[1].addr = REG_RX_PORT_CTL
    /\ lastOps[1].res = "Ok"
    /\ Bit(Load(regs, REG_RX_PORT_CTL), PORT0_EN + to_u32(rx_port)) = 0

(***************************************************************************)
(* The regulator callbacks                                                 *)
(***************************************************************************)
\* C38: the is_enabled callback handed to the regulator core returns a
\* positive value when the driver's is_enabled returns Ok(true), 0 when it
\* returns Ok(false), and a negative errno when it returns Err
C38_IsEnabledReported ==
    fieldLast.op = "is_enabled" =>
        /\ (fieldLast.ret = "Ok" /\ fieldLast.set) => fieldLast.val > 0
        /\ (fieldLast.ret = "Ok" /\ ~fieldLast.set) => fieldLast.val = 0
        /\ fieldLast.ret # "Ok" => fieldLast.val < 0

\* the driver has reported Ok(true) and the callback has returned 0
C38_Witness ==
    /\ fieldLast.op = "is_enabled"
    /\ fieldLast.ret = "Ok" /\ fieldLast.set
    /\ fieldLast.val = 0

\* the bits of the command register other than `own` are as before the call
C39_OnlyBit(own) ==
    \A b \in 0..(RegValBits - 1) : b # own => Bit(fieldReg', b) = Bit(fieldReg, b)

C39_Step ==
    /\ (fieldLast'.op = "set_suspend_mode" /\ fieldLast'.variant \in {"Normal", "Fast"}) =>
         /\ get_mode(fieldReg', "Ok") = get_mode(fieldReg, "Ok")
         /\ C39_OnlyBit(pwmvsel1.lo)
    /\ (fieldLast'.op = "set_mode" /\ fieldLast'.variant \in {"Normal", "Fast"}) =>
         /\ Bit(fieldReg', pwmvsel1.lo) = Bit(fieldReg, pwmvsel1.lo)
         /\ C39_OnlyBit(pwmvsel0.lo)
    /\ (fieldLast'.op \in {"set_mode", "set_suspend_mode"}
        /\ fieldLast'.variant \notin {"Normal", "Fast"}) =>
         fieldLast'.ret = "ENOTSUPP" /\ fieldReg' = fieldReg

\* C39: over a register bus that stores written values,
\* set_suspend_mode(Normal or Fast) does not change the operating mode
\* returned by get_mode, and set_mode does not change the suspend-mode bit:
\* each operation modifies only its own bit of the command register
\* (pwmvsel1 and pwmvsel0 respectively); any other mode returns ENOTSUPP
\* without a register write
C39_ModeBitsIndependent == [][C39_Step]_vars

\* set_suspend_mode(Fast) has succeeded and the register reads 0x40: the
\* suspend-mode bit is set and the operating-mode bit is clear
C39_Witness ==
    /\ fieldLast.op = "set_suspend_mode" /\ fieldLast.variant = "Fast"
    /\ fieldLast.ret = "Ok"
    /\ Bit(fieldReg, pwmvsel1.lo) = 1
    /\ Bit(fieldReg, pwmvsel0.lo) = 0

(***************************************************************************)
(* ArrayVec                                                                *)
(***************************************************************************)
\* len is at most N and the slice as_ref gives has len elements, all of them
\* pushed ones
C40_State ==
    /\ len \in 0..N
    /\ Len(as_ref(array, len)) = len
    /\ \A k \in 1..len : as_ref(array, len)[k] \in Elems
    /\ lastPush = NoPush => len = 0

\* a push that completes adds its element at the end of what as_ref gives
\* and adds one to len; a push on a full vector panics and changes neither
C40_Step ==
    IF len = N
    THEN /\ lastPush'.panicked
         /\ len' = len
         /\ array' = array
         /\ as_ref(array', len') = as_ref(array, len)
    ELSE /\ ~lastPush'.panicked
         /\ len' = len + 1
         /\ as_ref(array', len') = Append(as_ref(array, len), lastPush'.elem)

\* C40: for any sequence of push calls on an ArrayVec<N, T>, len() equals
\* the number of completed pushes and never exceeds N, as_ref() yields
\* exactly the pushed elements in push order, and a push on a full vector
\* panics without storing the element or changing len
C40_PushLenAsRef == [](C40_State) /\ [][C40_Step]_vars

\* a push on the full vector has panicked; the vector holds the N elements
\* pushed before, in their order
C40_Witness ==
    /\ len = N
    /\ lastPush = [elem |-> 9, panicked |-> TRUE]
    /\ as_ref(array, len) = [k \in 1..N |-> IF k = 1 THEN 8 ELSE 7]

====
